---------------------------- MODULE Spec2Model ----------------------------
(***************************************************************************)
(* Model of src/app_streamlit.py (InsightCare): the two validators         *)
(* validate_tiss_csv and validate_fixed_lines with the helpers they use    *)
(* (PROC_10D, DATE_8D, detect_jul_2025), ia_priorizar_e_sugerir,           *)
(* read_csv_smart, and the audit tab: the "Rodar Auditoria" handler, the   *)
(* workbook it writes, st.session_state and the summary request.           *)
(*                                                                         *)
(* Representation of Python values                                         *)
(*   str          a sequence of one-character strings, <<"G","1">>; a      *)
(*                character with no ASCII form is written by its code      *)
(*                point, "U+00A0" for the no-break space, and the fixed    *)
(*                text of a message is kept whole, <<"TUSS ausente.">>     *)
(*   int          [t |-> "int",   n |-> n, e |-> 0]                        *)
(*   float        [t |-> "float", n |-> n, e |-> e], the value n / 2^e     *)
(*                with n odd or e = 0.  On these dyadic values the         *)
(*                IEEE-754 products and differences of the code are exact, *)
(*                so integer arithmetic on (n, e) computes what the code   *)
(*                computes.  -0.0, inf and -inf are [t |-> "-0.0"],        *)
(*                [t |-> "inf"] and [t |-> "-inf"]; the float nearest      *)
(*                c / 100 that round() returns is [t |-> "cent", n |-> c]. *)
(*   NaN          [t |-> "nan"]   (a missing cell of a DataFrame)          *)
(*   a str cell   [t |-> "str", s |-> <<...>>]                             *)
(*   None         [t |-> "none"]                                           *)
(*   DataFrame    [columns |-> set of names,                               *)
(*                 rows |-> sequence of functions columns -> cell]         *)
(***************************************************************************)
EXTENDS Integers, Sequences, FiniteSets, TLC

VARIABLES
    pc,             \* "call": a handler is about to run; "done": it has run
    input,          \* what the handler is applied to
    result,         \* what it returned or produced
    session_state,  \* st.session_state: findings_pack and competencia_atual
    completed       \* history: the last audit run that ran to completion

vars == <<pc, input, result, session_state, completed>>

(***************************************************************************)
(* Python values                                                           *)
(***************************************************************************)
NaN == [t |-> "nan"]

None == [t |-> "none"]

S(s) == [t |-> "str", s |-> s]

I(n) == [t |-> "int", n |-> n, e |-> 0]

\* the floats -0.0, inf and -inf
NegZero == [t |-> "-0.0"]

PosInf == [t |-> "inf"]

NegInf == [t |-> "-inf"]

\* a double that is no n / 2^e with n in the range of the model's integers,
\* like 0.1: the model computes nothing from it
OtherFloat == [t |-> "float"]

RECURSIVE Pow2(_)
Pow2(k) == IF k = 0 THEN 1 ELSE 2 * Pow2(k - 1)

RECURSIVE Pow5(_)
Pow5(k) == IF k = 0 THEN 1 ELSE 5 * Pow5(k - 1)

RECURSIVE Pow10(_)
Pow10(k) == IF k = 0 THEN 1 ELSE 10 * Pow10(k - 1)

\* the float n / 2^e in lowest terms
RECURSIVE F(_, _)
F(n, e) == IF e > 0 /\ n % 2 = 0 THEN F(n \div 2, e - 1)
           ELSE [t |-> "float", n |-> n, e |-> e]

\* an int or a finite float other than -0.0: a value with the fields n and e
IsNum(x) == x.t \in {"int", "float"}

IsInf(x) == x.t \in {"inf", "-inf"}

IsZero(x) == x.t = "-0.0" \/ (IsNum(x) /\ x.n = 0)

\* the sign bit
Negative(x) == x.t \in {"-0.0", "-inf"} \/ (IsNum(x) /\ x.n < 0)

\* -0.0 as the number it is
Unsigned(x) == IF x.t = "-0.0" THEN F(0, 0) ELSE x

\* numpy's result type of a binary operation: int only when both are int
ResType(a, b) == IF a.t = "int" /\ b.t = "int" THEN "int" ELSE "float"

Typed(t, n, e) == IF t = "int" THEN I(n) ELSE F(n, e)

\* a * b
Mul(a, b) ==
    IF ResType(a, b) = "int" THEN I(a.n * b.n)
    ELSE IF a.t = "nan" \/ b.t = "nan" THEN NaN
    ELSE IF (IsInf(a) /\ IsZero(b)) \/ (IsZero(a) /\ IsInf(b)) THEN NaN
    ELSE IF IsInf(a) \/ IsInf(b)
    THEN (IF Negative(a) # Negative(b) THEN NegInf ELSE PosInf)
    ELSE IF IsZero(a) \/ IsZero(b)
    THEN (IF Negative(a) # Negative(b) THEN NegZero ELSE F(0, 0))
    ELSE F(a.n * b.n, a.e + b.e)

\* a - b
Sub(a, b) ==
    IF ResType(a, b) = "int" THEN I(a.n - b.n)
    ELSE IF a.t = "nan" \/ b.t = "nan" THEN NaN
    ELSE IF IsInf(a) THEN (IF b.t = a.t THEN NaN ELSE a)
    ELSE IF IsInf(b) THEN (IF b.t = "inf" THEN NegInf ELSE PosInf)
    ELSE IF a.t = "-0.0" /\ IsZero(b) /\ b.t # "-0.0" THEN NegZero
    ELSE LET x == Unsigned(a)
             y == Unsigned(b)
             e == IF x.e > y.e THEN x.e ELSE y.e
         IN  F(x.n * Pow2(e - x.e) - y.n * Pow2(e - y.e), e)

\* abs(a)
Abs(a) ==
    CASE a.t = "-0.0"        -> F(0, 0)
      [] IsInf(a)            -> PosInf
      [] a.t = "nan"         -> NaN
      [] OTHER               -> [a EXCEPT !.n = IF a.n < 0 THEN -a.n ELSE a.n]

\* a > 0.01: the double 0.01 lies between 1/100 and the next n / 2^e of the
\* values of the model, so the comparison is the one with 1/100; nan is
\* greater than nothing
GtCent(a) == a.t = "inf" \/ (IsNum(a) /\ 100 * a.n > Pow2(a.e))

\* pd.isna
isna(x) == x.t \in {"nan", "none"}

Digit == {"0", "1", "2", "3", "4", "5", "6", "7", "8", "9"}

DigitVal(c) ==
    CASE c = "0" -> 0 [] c = "1" -> 1 [] c = "2" -> 2 [] c = "3" -> 3
      [] c = "4" -> 4 [] c = "5" -> 5 [] c = "6" -> 6 [] c = "7" -> 7
      [] c = "8" -> 8 [] c = "9" -> 9

DigitChar(d) == <<"0", "1", "2", "3", "4", "5", "6", "7", "8", "9">>[d + 1]

\* int(s) of a string of decimal digits
RECURSIVE IntOf(_)
IntOf(s) == IF s = <<>> THEN 0
            ELSE 10 * IntOf(SubSeq(s, 1, Len(s) - 1)) + DigitVal(s[Len(s)])

AllDigits(s) == \A k \in 1..Len(s) : s[k] \in Digit

\* str(n) of a non-negative int
RECURSIVE StrNat(_)
StrNat(n) == IF n < 10 THEN <<DigitChar(n)>>
             ELSE StrNat(n \div 10) \o <<DigitChar(n % 10)>>

StrInt(n) == IF n < 0 THEN <<"-">> \o StrNat(-n) ELSE StrNat(n)

(***************************************************************************)
(* str(x) of a float: repr, the shortest decimal that reads back as x,     *)
(* computed on decimal numerals (sequences of the numbers 0..9), which     *)
(* have no width                                                           *)
(***************************************************************************)
Zeros(k) == [j \in 1..k |-> 0]

\* Products are computed on groups of four digits (numbers below 10^4, the
\* first group leading).  The groups of n >= 0:
RECURSIVE Groups(_)
Groups(n) == IF n < Pow10(4) THEN <<n>>
             ELSE Append(Groups(n \div Pow10(4)), n % Pow10(4))

\* the groups of g * m + c, for m <= 5^6
RECURSIVE Times(_, _, _)
Times(g, m, c) ==
    IF g = <<>> THEN (IF c = 0 THEN <<>> ELSE Groups(c))
    ELSE LET v == g[Len(g)] * m + c
         IN  Append(Times(SubSeq(g, 1, Len(g) - 1), m, v \div Pow10(4)), v % Pow10(4))

\* the groups of g * 5^k
RECURSIVE Times5(_, _)
Times5(g, k) == IF k <= 6 THEN Times(g, Pow5(k), 0)
                ELSE Times5(Times(g, Pow5(6), 0), k - 6)

StripLeft(d) ==
    IF \A k \in 1..Len(d) : d[k] = 0 THEN <<>>
    ELSE SubSeq(d, CHOOSE p \in 1..Len(d) : d[p] # 0 /\ \A j \in 1..(p - 1) : d[j] = 0,
                Len(d))

StripRight(d) ==
    IF \A k \in 1..Len(d) : d[k] = 0 THEN <<>>
    ELSE SubSeq(d, 1, CHOOSE p \in 1..Len(d) :
                         d[p] # 0 /\ \A j \in (p + 1)..Len(d) : d[j] = 0)

\* the numeral of the number with groups g
NumeralOf(g) ==
    StripLeft([j \in 1..(4 * Len(g)) |->
                 (g[(j - 1) \div 4 + 1] \div Pow10(3 - ((j - 1) % 4))) % 10])

\* the numeral of a * 5^k, a > 0
TimesPow5(a, k) == NumeralOf(Times5(Groups(a), k))

\* x <= y, for two numerals
Leq(x, y) ==
    LET a == StripLeft(x)
        b == StripLeft(y)
    IN  \/ Len(a) < Len(b)
        \/ /\ Len(a) = Len(b)
           /\ \A k \in 1..Len(a) :
                 (\A j \in 1..(k - 1) : a[j] = b[j]) => a[k] <= b[k]

\* the numeral of 10^Len(d) - d, for d > 0
Complement(d) ==
    LET p == CHOOSE p \in 1..Len(d) : d[p] # 0 /\ \A j \in (p + 1)..Len(d) : d[j] = 0
    IN  [k \in 1..Len(d) |-> IF k < p THEN 9 - d[k] ELSE IF k = p THEN 10 - d[k] ELSE 0]

\* the numeral of d + 1, one digit longer when d is all nines
RECURSIVE Succ(_)
Succ(d) ==
    IF d = <<>> THEN <<1>>
    ELSE IF d[Len(d)] < 9 THEN [d EXCEPT ![Len(d)] = @ + 1]
    ELSE Append(Succ(SubSeq(d, 1, Len(d) - 1)), 0)

RECURSIVE BitLen(_)
BitLen(a) == IF a = 0 THEN 0 ELSE 1 + BitLen(a \div 2)

\* The decimals of k digits next to v = V / 10^s, where V has more than k
\* digits, that read back as v: those no further below v than Lo / 10^s and
\* no further above it than Hi / 10^s.  Each is <<distance is upward, digits>>.
Candidates(V, k, Lo, Hi) ==
    IF StripLeft(SubSeq(V, k + 1, Len(V))) = <<>> THEN {<<FALSE, SubSeq(V, 1, k)>>}
    ELSE (IF Leq(SubSeq(V, k + 1, Len(V)), Lo)
          THEN {<<FALSE, SubSeq(V, 1, k)>>} ELSE {})
         \cup (IF Leq(Complement(SubSeq(V, k + 1, Len(V))), Hi)
               THEN {<<TRUE, Succ(SubSeq(V, 1, k))>>} ELSE {})

\* whether the decimal of k digits nearest to V / 10^s is the one above, the
\* even one at a tie: T are the digits of V behind the first k
RoundsUp(V, k, T) ==
    IF T = <<5>> \o Zeros(Len(T) - 1) THEN V[k] % 2 = 1
    ELSE ~Leq(T, <<5>> \o Zeros(Len(T) - 1))

\* of the candidates c the one on the side up, any when there is none
Choice(c, up) ==
    IF \E x \in c : x[1] = up THEN (CHOOSE x \in c : x[1] = up)[2]
    ELSE (CHOOSE x \in c : TRUE)[2]

\* of the candidates the one nearest to v
Nearest(V, k, Lo, Hi) ==
    Choice(Candidates(V, k, Lo, Hi), RoundsUp(V, k, SubSeq(V, k + 1, Len(V))))

\* the digits d, without the zeros at their end, for the k digits asked for
\* of a number whose first digit stands for 10^x: d is one longer than k when
\* rounding carried into a new digit
Rounded(d, k, x) == [digits |-> StripRight(d), exp |-> x + (Len(d) - k)]

\* the fewest digits that read back as V / 10^s
Fewest(V, Lo, Hi) ==
    CHOOSE k \in 1..17 :
        /\ Candidates(V, k, Lo, Hi) # {}
        /\ \A j \in 1..(k - 1) : Candidates(V, j, Lo, Hi) = {}

\* the k digits nearest to V / 10^s
ShortestOf(V, k, Lo, Hi, x) == Rounded(Nearest(V, k, Lo, Hi), k, x)

\* repr of the number with the expansion N, whose first digit stands for
\* 10^x; V is N with zeros behind it
Within(N, V, Lo, Hi, x) ==
    IF Len(StripRight(N)) <= 15
    THEN [digits |-> StripRight(N), exp |-> x]
    ELSE ShortestOf(V, Fewest(V, Lo, Hi), Lo, Hi, x)

\* N, the expansion of a / 2^e, brought to the scale of Lo and Hi
Expansion(N, e, b, Lo, Hi) == Within(N, N \o Zeros(55 - b), Lo, Hi, Len(N) - 1 - e)

\* the distance Lo below a / 2^e, given the one above
Margins(a, e, b, Hi) ==
    Expansion(TimesPow5(a, e), e, b,
              IF a = Pow2(b - 1) THEN TimesPow5(1, e + 55 - b) ELSE Hi, Hi)

\* the distance Hi above a / 2^e, given the bits b of a
Bits(a, e, b) == Margins(a, e, b, Append(TimesPow5(1, e + 54 - b), 0))

\* The significant digits of repr(a / 2^e), a > 0, and the power of ten of
\* the first of them.  A double has 53 bits, so with b the bits of a its
\* neighbours lie 2^(b-e-53) away (the one below a power of two half as far),
\* and the decimals that read back as a / 2^e are those within half of that:
\* no further above than Hi / 10^(e+55-b), no further below than Lo over the
\* same.  Among them repr takes one of fewest digits, the nearest; it has at
\* most 17.  An expansion of at most 15 digits is its own repr.
Shortest(a, e) == Bits(a, e, BitLen(a))

Chars(d) == [k \in 1..Len(d) |-> DigitChar(d[k])]

\* the digits d, the first of them standing for 10^x, with the point in place
\* when x is -4 up to 15, as "d.ddde-XX" otherwise
Layout(d, x) ==
    IF x < -4 \/ x > 15
    THEN <<d[1]>> \o (IF Len(d) > 1 THEN <<".">> \o Tail(d) ELSE <<>>)
         \o <<"e", IF x < 0 THEN "-" ELSE "+">>
         \o (IF x > -10 /\ x < 10 THEN <<"0">> ELSE <<>>)
         \o StrNat(IF x < 0 THEN -x ELSE x)
    ELSE IF x < 0
    THEN <<"0", ".">> \o Chars(Zeros(-x - 1)) \o d
    ELSE IF x + 1 < Len(d)
    THEN SubSeq(d, 1, x + 1) \o <<".">> \o SubSeq(d, x + 2, Len(d))
    ELSE d \o Chars(Zeros(x + 1 - Len(d))) \o <<".", "0">>

\* the digits and the power of ten r written out
Repr(r) == Layout(Chars(r.digits), r.exp)

\* repr of a finite float other than 0
StrFloat(n, e) ==
    IF n < 0 THEN <<"-">> \o Repr(Shortest(-n, e)) ELSE Repr(Shortest(n, e))

\* the float nearest c / 100, as round(x, 2) returns it
Cent(c) == [t |-> "cent", n |-> c]

\* repr of the float nearest c / 100, c # 0: c / 100 itself
StrCent(c) ==
    LET a == IF c < 0 THEN -c ELSE c
    IN  (IF c < 0 THEN <<"-">> ELSE <<>>) \o StrNat(a \div 100) \o <<".">>
        \o (IF a % 10 = 0 THEN <<DigitChar((a \div 10) % 10)>>
            ELSE <<DigitChar((a \div 10) % 10), DigitChar(a % 10)>>)

\* str(x)
str(x) ==
    CASE x.t = "str"   -> x.s
      [] x.t = "int"   -> StrInt(x.n)
      [] x.t = "float" -> IF x.n = 0 THEN <<"0", ".", "0">> ELSE StrFloat(x.n, x.e)
      [] x.t = "cent"  -> StrCent(x.n)
      [] x.t = "-0.0"  -> <<"-", "0", ".", "0">>
      [] x.t = "inf"   -> <<"i", "n", "f">>
      [] x.t = "-inf"  -> <<"-", "i", "n", "f">>
      [] x.t = "nan"   -> <<"n", "a", "n">>
      [] x.t = "none"  -> <<"N", "o", "n", "e">>

\* round2(x) = round(float(x), 2) of a number or nan: the hundredths nearest
\* the value, the even one at a tie, with the sign of x
round2(x) ==
    IF ~IsNum(x) THEN x
    ELSE LET a == IF x.n < 0 THEN -x.n ELSE x.n
             q == (100 * a) \div Pow2(x.e)
             r == (100 * a) % Pow2(x.e)
             c == IF 2 * r > Pow2(x.e) \/ (2 * r = Pow2(x.e) /\ q % 2 = 1)
                  THEN q + 1 ELSE q
         IN  IF c = 0 THEN (IF x.n < 0 THEN NegZero ELSE F(0, 0))
             ELSE Cent(IF x.n < 0 THEN -c ELSE c)

\* the characters with str.isspace(), which str.strip() removes
Whitespace ==
    {" ", "\t", "\n", "\r", "\f", "U+000B", "U+001C", "U+001D", "U+001E", "U+001F",
     "U+0085", "U+00A0", "U+1680", "U+2000", "U+2001", "U+2002", "U+2003",
     "U+2004", "U+2005", "U+2006", "U+2007", "U+2008", "U+2009", "U+200A",
     "U+2028", "U+2029", "U+202F", "U+205F", "U+3000"}

\* str.strip()
RECURSIVE lstrip(_)
lstrip(s) == IF s # <<>> /\ s[1] \in Whitespace THEN lstrip(Tail(s)) ELSE s

RECURSIVE rstrip(_)
rstrip(s) == IF s # <<>> /\ s[Len(s)] \in Whitespace
             THEN rstrip(SubSeq(s, 1, Len(s) - 1)) ELSE s

strip(s) == rstrip(lstrip(s))

(***************************************************************************)
(* pd.to_numeric(column, errors="coerce")                                  *)
(***************************************************************************)
\* the white space the parser of numbers skips: C's isspace
AsciiSpace == {" ", "\t", "\n", "\r", "\f", "U+000B"}

\* how many characters of s from position p on lie in the set C
RECURSIVE Span(_, _, _)
Span(s, p, C) == IF p <= Len(s) /\ s[p] \in C THEN 1 + Span(s, p + 1, C) ELSE 0

\* s.lower(), for the letters of the names of floats
Lower(s) ==
    [k \in 1..Len(s) |->
        CASE s[k] = "N" -> "n" [] s[k] = "A" -> "a" [] s[k] = "I" -> "i"
          [] s[k] = "F" -> "f" [] s[k] = "T" -> "t" [] s[k] = "Y" -> "y"
          [] OTHER -> s[k]]

\* m / 10^j, j > 0, for an m that does not end in 0: some n / 2^j when 5^j
\* divides m, and a double the model has no value for otherwise
Quotient(m, j) ==
    IF j <= 13 /\ m % Pow5(j) = 0 THEN F(m \div Pow5(j), j) ELSE OtherFloat

\* m * 10^x with the zeros at the end of m taken off
RECURSIVE Scaled(_, _)
Scaled(m, x) == IF x >= 0 THEN F(m * Pow10(x), 0)
                ELSE IF m % 10 = 0 THEN Scaled(m \div 10, x + 1)
                ELSE Quotient(m, -x)

\* s without the white space at its ends
RECURSIVE Trim(_)
Trim(s) == IF s # <<>> /\ s[1] \in AsciiSpace THEN Trim(Tail(s))
           ELSE IF s # <<>> /\ s[Len(s)] \in AsciiSpace
           THEN Trim(SubSeq(s, 1, Len(s) - 1))
           ELSE s

\* the numeral of a string of digits
Numeral(s) == [k \in 1..Len(s) |-> DigitVal(s[k])]

\* the number of a numeral of less than ten digits
NatOf(d) == IntOf(Chars(d))

\* u from position p on is an exponent or nothing: "e" or "E", a sign or
\* none, and digits to the end
IsExponent(u, p) ==
    \/ p > Len(u)
    \/ /\ u[p] \in {"e", "E"}
       /\ Span(u, p + 1, {"+", "-"}) <= 1
       /\ p + Span(u, p + 1, {"+", "-"}) < Len(u)
       /\ \A k \in (p + 1 + Span(u, p + 1, {"+", "-"}))..Len(u) : u[k] \in Digit

\* the value of the exponent of u at position p
ExponentOf(u, p) ==
    IF p > Len(u) THEN 0
    ELSE (IF u[p + 1] = "-" THEN -1 ELSE 1)
         * IntOf(SubSeq(u, p + 1 + Span(u, p + 1, {"+", "-"}), Len(u)))

\* the float of the digits d, the first of them no zero, times 10^x
Decimal(neg, d, x) ==
    IF d = <<>> THEN (IF neg THEN NegZero ELSE F(0, 0))
    ELSE IF Len(d) > 9 \/ Len(d) + x > 9 THEN OtherFloat
    ELSE Scaled(IF neg THEN -NatOf(d) ELSE NatOf(d), x)

\* the float of the digits int, the digits frac behind the point, and the
\* exponent x
Float(neg, int, frac, x) ==
    Decimal(neg, StripLeft(Numeral(int) \o frac), x - Len(frac))

\* the number u is, ni digits, then nf digits behind a point if dot, then an
\* exponent: an int when it is digits alone, a float otherwise
Number(neg, u, ni, dot, nf) ==
    IF ~dot /\ ni = Len(u)
    THEN I(IF neg THEN -IntOf(u) ELSE IntOf(u))
    ELSE Float(neg, SubSeq(u, 1, ni),
               StripRight(Numeral(SubSeq(u, ni + 2, ni + 1 + nf))),
               ExponentOf(u, IF dot THEN ni + nf + 2 ELSE ni + 1))

\* whether u is a number: digits on one side of the point at least, and
\* nothing behind but an exponent
IsNumber(u, ni, dot, nf) ==
    ni + nf > 0 /\ IsExponent(u, IF dot THEN ni + nf + 2 ELSE ni + 1)

\* u, a string with no white space at its ends and no sign, read as a number:
\* its digits behind the point
Fraction(neg, u, ni, dot) ==
    IF IsNumber(u, ni, dot, IF dot THEN Span(u, ni + 2, Digit) ELSE 0)
    THEN Number(neg, u, ni, dot, IF dot THEN Span(u, ni + 2, Digit) ELSE 0)
    ELSE NaN

\* its point
Mantissa(neg, u, ni) == Fraction(neg, u, ni, ni < Len(u) /\ u[ni + 1] = ".")

\* the sign of t and its digits before the point
Signed(t) ==
    IF t # <<>> /\ t[1] \in {"+", "-"}
    THEN Mantissa(t[1] = "-", Tail(t), Span(t, 2, Digit))
    ELSE Mantissa(FALSE, t, Span(t, 1, Digit))

\* the names of floats, in lower case
Word(w) ==
    IF w \in {<<"i", "n", "f">>, <<"+", "i", "n", "f">>,
              <<"i", "n", "f", "i", "n", "i", "t", "y">>,
              <<"+", "i", "n", "f", "i", "n", "i", "t", "y">>}
    THEN PosInf
    ELSE IF w \in {<<"-", "i", "n", "f">>,
                   <<"-", "i", "n", "f", "i", "n", "i", "t", "y">>}
    THEN NegInf
    ELSE NaN

\* One string cell.  The parser takes white space, a sign, digits, "." and
\* digits (digits on one side at least), an exponent "e" or "E" with a sign
\* and digits, and white space; digits alone, signed or not, are an int, the
\* rest a float.  Besides it knows nan, inf and infinity in any case, the last
\* two with a sign.  Anything else, the empty string too, is coerced to NaN.
\* The floats of the model have less than ten digits before their power of
\* ten.
ParseNum(s) == IF Signed(Trim(s)) # NaN THEN Signed(Trim(s)) ELSE Word(Lower(s))

\* whether ParseNum gives the value pd.to_numeric gives
Representable(s) == ParseNum(s) # OtherFloat

AsFloat(x) == IF x.t = "int" THEN F(x.n, 0) ELSE x

\* one cell, coerced
Cell(x) == IF x.t = "str" THEN ParseNum(x.s)
           ELSE IF x.t = "none" THEN NaN ELSE x

\* the cell x read as a float, v being its coerced value: the digits of a
\* string are read as a float beside the int, so that "-0" is -0.0
FloatCell(x, v) ==
    IF v.t # "int" THEN v
    ELSE IF v.n = 0 /\ x.t = "str" /\ Trim(x.s)[1] = "-" THEN NegZero
    ELSE F(v.n, 0)

\* a column is float64 as soon as one cell is NaN or a float
Cast(col, parsed) ==
    IF \E k \in 1..Len(parsed) : parsed[k].t # "int"
    THEN [k \in 1..Len(parsed) |-> FloatCell(col[k], parsed[k])]
    ELSE parsed

\* the cells of one column, coerced: each string parsed, and the column cast
\* to float64 where it has to be
to_numeric(col) == Cast(col, [k \in 1..Len(col) |-> Cell(col[k])])

(***************************************************************************)
(* DataFrame                                                               *)
(***************************************************************************)
Column(df, c) == [k \in 1..Len(df.rows) |-> df.rows[k][c]]

\* the dtype pandas gives a column holding these cells
dtype(df, c) ==
    LET col == Column(df, c)
    IN  IF col = <<>> \/ \E k \in 1..Len(col) : col[k].t \in {"str", "none"}
        THEN "object"
        ELSE IF \E k \in 1..Len(col) : col[k].t # "int"
        THEN "float64" ELSE "int64"

\* df[c] = values
SetColumn(df, c, col) ==
    [df EXCEPT !.rows = [k \in 1..Len(df.rows) |-> [df.rows[k] EXCEPT ![c] = col[k]]]]

\* The row Series DataFrame.iterrows() yields: one dtype for the whole row,
\* so the ints of a row are cast to float when every column is numeric and
\* one of them is float64.
RowSeries(df, i) ==
    IF \E c \in df.columns : dtype(df, c) = "object" THEN df.rows[i]
    ELSE IF \E c \in df.columns : dtype(df, c) = "float64"
    THEN [c \in df.columns |-> AsFloat(df.rows[i][c])]
    ELSE df.rows[i]

(***************************************************************************)
(* validate_tiss_csv                                                       *)
(***************************************************************************)
required_cols == <<"numero_guia", "cid10", "tuss_codigo", "qtd", "vl_unit", "vl_total">>

Finding(rule, sev, rid, desc, fix, impact) ==
    [regra_id |-> rule, gravidade |-> sev, registro_id |-> rid,
     descricao |-> desc, como_corrigir |-> fix, impacto_estimado_RS |-> impact]

\* row.get(c) is missing, or blank once stripped
Blank(x) == isna(x) \/ strip(str(x)) = <<>>

\* mutation: the comparison without abs()
MismatchSigned(calc, vl_total) == GtCent(Sub(calc, vl_total))

\* mutation: the impact without abs()
ImpactSigned(calc, vl_total) == Sub(calc, vl_total)

\* abs(calc - df.at[i,"vl_total"]) > 0.01
Mismatch(calc, vl_total) == GtCent(Abs(Sub(calc, vl_total)))

\* impacto_estimado_RS=abs(calc-df.at[i,"vl_total"])
Impact(calc, vl_total) == Abs(Sub(calc, vl_total))

\* f"vl_total ({df.at[i,'vl_total']}) != qtd*vl_unit ({round2(calc)})."
FinanceiroText(vl_total, calc) ==
    <<"vl_total (">> \o str(vl_total) \o <<") != qtd*vl_unit (">>
    \o str(round2(calc)) \o <<").">>

\* mutation: a finding is dropped when the same rule was already reported for
\* the same record id
RowChecksDedup(df, i, findings) ==
    LET row == RowSeries(df, i)
        rid == str(row["numero_guia"])
        Seen(fs, rule) == \E k \in 1..Len(fs) :
                             fs[k].regra_id = rule /\ fs[k].registro_id = rid
        f1  == IF Blank(row["cid10"]) /\ ~Seen(findings, "TISS_CID_OBR")
               THEN Append(findings,
                      Finding("TISS_CID_OBR", "alta", rid, <<"CID-10 ausente.">>,
                              "Preencher CID-10 conforme laudo/diagnostico.", None))
               ELSE findings
        f2  == IF Blank(row["tuss_codigo"]) /\ ~Seen(f1, "TISS_TUSS_OBR")
               THEN Append(f1,
                      Finding("TISS_TUSS_OBR", "alta", rid, <<"TUSS ausente.">>,
                              "Preencher codigo TUSS vigente.", None))
               ELSE f1
        qtd      == df.rows[i]["qtd"]
        vl_unit  == df.rows[i]["vl_unit"]
        vl_total == df.rows[i]["vl_total"]
    IN  IF ~(isna(qtd) \/ isna(vl_unit) \/ isna(vl_total))
           /\ Mismatch(Mul(qtd, vl_unit), vl_total) /\ ~Seen(f2, "TISS_FINANCEIRO")
        THEN Append(f2,
               Finding("TISS_FINANCEIRO", "media", rid,
                       FinanceiroText(vl_total, Mul(qtd, vl_unit)),
                       "Ajustar quantidade/valor unitario ou total.",
                       Impact(Mul(qtd, vl_unit), vl_total)))
        ELSE f2

\* the body of the loop over df.iterrows(), for row i
RowChecks(df, i, findings) ==
    LET row == RowSeries(df, i)
        rid == str(row["numero_guia"])
        f1  == IF Blank(row["cid10"])
               THEN Append(findings,
                      Finding("TISS_CID_OBR", "alta", rid, <<"CID-10 ausente.">>,
                              "Preencher CID-10 conforme laudo/diagnostico.", None))
               ELSE findings
        f2  == IF Blank(row["tuss_codigo"])
               THEN Append(f1,
                      Finding("TISS_TUSS_OBR", "alta", rid, <<"TUSS ausente.">>,
                              "Preencher codigo TUSS vigente.", None))
               ELSE f1
        qtd      == df.rows[i]["qtd"]
        vl_unit  == df.rows[i]["vl_unit"]
        vl_total == df.rows[i]["vl_total"]
    IN  IF ~(isna(qtd) \/ isna(vl_unit) \/ isna(vl_total))
        THEN LET calc == Mul(qtd, vl_unit)
             IN  IF Mismatch(calc, vl_total)
                 THEN Append(f2,
                        Finding("TISS_FINANCEIRO", "media", rid,
                                FinanceiroText(vl_total, calc),
                                "Ajustar quantidade/valor unitario ou total.",
                                Impact(calc, vl_total)))
                 ELSE f2
        ELSE f2

RECURSIVE iterrows(_, _, _)
iterrows(df, i, findings) ==
    IF i > Len(df.rows) THEN findings
    ELSE iterrows(df, i + 1, RowChecks(df, i, findings))

\* for c in ["qtd","vl_unit","vl_total"]: df[c] = pd.to_numeric(df[c], errors="coerce")
Coerce(df) ==
    LET d1 == SetColumn(df, "qtd", to_numeric(Column(df, "qtd")))
        d2 == SetColumn(d1, "vl_unit", to_numeric(Column(d1, "vl_unit")))
    IN  SetColumn(d2, "vl_total", to_numeric(Column(d2, "vl_total")))

MissingCols(df) == SelectSeq(required_cols, LAMBDA c : c \notin df.columns)

\* pd.DataFrame(findings): each column takes one dtype.  impacto_estimado_RS
\* stays as it is when every value is None (object) or every value an int
\* (int64), and is float64 otherwise, where a None is NaN and an int a float.
DataFrame(findings) ==
    LET K == 1..Len(findings)
    IN  IF \/ \A k \in K : findings[k].impacto_estimado_RS.t = "none"
           \/ \A k \in K : findings[k].impacto_estimado_RS.t = "int"
        THEN findings
        ELSE [k \in K |->
                [findings[k] EXCEPT !.impacto_estimado_RS =
                                       IF isna(@) THEN NaN ELSE AsFloat(@)]]

\* mutation: one finding for each missing column
validate_tiss_csv_per_column(df) ==
    IF MissingCols(df) # <<>>
    THEN [k \in 1..Len(MissingCols(df)) |->
            Finding("TISS_CAMPOS_OBR", "alta", <<"-">>,
                    <<"Colunas ausentes:", <<MissingCols(df)[k]>> >>,
                    "Adicionar colunas exigidas ao CSV antes da analise.", I(0))]
    ELSE DataFrame(iterrows(Coerce(df), 1, <<>>))

validate_tiss_csv(df) ==
    IF MissingCols(df) # <<>>
    THEN << Finding("TISS_CAMPOS_OBR", "alta", <<"-">>,
                    <<"Colunas ausentes:", MissingCols(df)>>,
                    "Adicionar colunas exigidas ao CSV antes da analise.", I(0)) >>
    ELSE DataFrame(iterrows(Coerce(df), 1, <<>>))

(***************************************************************************)
(* PROC_10D, DATE_8D, detect_jul_2025                                      *)
(***************************************************************************)
Letter == {"A", "B", "C", "D", "E", "F", "G", "H", "I", "J", "K", "L", "M",
           "N", "O", "P", "Q", "R", "S", "T", "U", "V", "W", "X", "Y", "Z",
           "a", "b", "c", "d", "e", "f", "g", "h", "i", "j", "k", "l", "m",
           "n", "o", "p", "q", "r", "s", "t", "u", "v", "w", "x", "y", "z"}

\* try_read_text decodes the upload as latin-1, so the characters of a text lie
\* in U+0000..U+00FF: there \d is 0-9, and \w adds these letters and numerics
Latin1Word ==
    {"U+00AA", "U+00B2", "U+00B3", "U+00B5", "U+00B9", "U+00BA", "U+00BC", "U+00BD",
     "U+00BE", "U+00C0", "U+00C1", "U+00C2", "U+00C3", "U+00C4", "U+00C5", "U+00C6",
     "U+00C7", "U+00C8", "U+00C9", "U+00CA", "U+00CB", "U+00CC", "U+00CD", "U+00CE",
     "U+00CF", "U+00D0", "U+00D1", "U+00D2", "U+00D3", "U+00D4", "U+00D5", "U+00D6",
     "U+00D8", "U+00D9", "U+00DA", "U+00DB", "U+00DC", "U+00DD", "U+00DE", "U+00DF",
     "U+00E0", "U+00E1", "U+00E2", "U+00E3", "U+00E4", "U+00E5", "U+00E6", "U+00E7",
     "U+00E8", "U+00E9", "U+00EA", "U+00EB", "U+00EC", "U+00ED", "U+00EE", "U+00EF",
     "U+00F0", "U+00F1", "U+00F2", "U+00F3", "U+00F4", "U+00F5", "U+00F6", "U+00F8",
     "U+00F9", "U+00FA", "U+00FB", "U+00FC", "U+00FD", "U+00FE", "U+00FF"}

\* \w of the regular expressions
IsWord(c) == c \in Digit \cup Letter \cup {"_"} \cup Latin1Word

DigitsAt(s, p, n) == p >= 1 /\ p + n - 1 <= Len(s) /\ \A k \in p..(p + n - 1) : s[k] \in Digit

\* mutation: the pattern without its lookahead (?!\d)
Proc10AtNoLookahead(s, p) ==
    DigitsAt(s, p, 10) /\ (p = 1 \/ s[p - 1] \notin Digit)

\* PROC_10D = (?<!\d)(\d{10})(?!\d) matches at position p
Proc10At(s, p) ==
    /\ DigitsAt(s, p, 10)
    /\ (p = 1 \/ s[p - 1] \notin Digit)
    /\ (p + 10 > Len(s) \/ s[p + 10] \notin Digit)

\* PROC_10D.search(l) is not None
PROC_10D_search(s) == \E p \in 1..Len(s) : Proc10At(s, p)

\* mutation: the pattern without its word boundaries
Date8AtNoBoundary(s, p) == DigitsAt(s, p, 8)

\* DATE_8D = \b(\d{8})\b matches at position p
Date8At(s, p) ==
    /\ DigitsAt(s, p, 8)
    /\ (p = 1 \/ ~IsWord(s[p - 1]))
    /\ (p + 8 > Len(s) \/ ~IsWord(s[p + 8]))

\* DATE_8D.findall(text): the matches from left to right, none overlapping
RECURSIVE DATE_8D_from(_, _)
DATE_8D_from(s, p) ==
    IF p > Len(s) THEN <<>>
    ELSE IF Date8At(s, p) THEN <<SubSeq(s, p, p + 7)>> \o DATE_8D_from(s, p + 8)
    ELSE DATE_8D_from(s, p + 1)

DATE_8D_findall(s) == DATE_8D_from(s, 1)

\* The lengths, in the order the regular expression of strptime tries them, of
\* a %d at position p: 3[0-1] | [1-2]\d | 0[1-9] | [1-9]
DayLens(s, p) ==
    (IF DigitsAt(s, p, 2) /\ IntOf(SubSeq(s, p, p + 1)) \in 1..31 THEN <<2>> ELSE <<>>)
    \o (IF DigitsAt(s, p, 1) /\ s[p] # "0" THEN <<1>> ELSE <<>>)

\* the same of a %m: 1[0-2] | 0[1-9] | [1-9]
MonthLens(s, p) ==
    (IF DigitsAt(s, p, 2) /\ IntOf(SubSeq(s, p, p + 1)) \in 1..12 THEN <<2>> ELSE <<>>)
    \o (IF DigitsAt(s, p, 1) /\ s[p] # "0" THEN <<1>> ELSE <<>>)

ValueError == [ok |-> FALSE]

IsLeap(y) == (y % 4 = 0 /\ y % 100 # 0) \/ y % 400 = 0

DaysInMonth(y, m) ==
    IF m = 2 THEN (IF IsLeap(y) THEN 29 ELSE 28)
    ELSE IF m \in {4, 6, 9, 11} THEN 30 ELSE 31

\* datetime(year, month, day): ValueError when it is no date
MakeDate(y, m, d) ==
    IF y >= 1 /\ m \in 1..12 /\ d >= 1 /\ d <= DaysInMonth(y, m)
    THEN [ok |-> TRUE, year |-> y, month |-> m, day |-> d]
    ELSE ValueError

\* strptime matches the format's regular expression, which tries the longer
\* alternative of each field first and is not anchored at the end of the
\* token: the first way to match decides, and data left over is an error.
\* datetime.strptime(token, "%d%m%Y")
strptime_dmY(s) ==
    LET cands == [a \in {1, 2}, b \in {1, 2} |->
                    /\ \E k \in 1..Len(DayLens(s, 1)) : DayLens(s, 1)[k] = a
                    /\ \E k \in 1..Len(MonthLens(s, 1 + a)) : MonthLens(s, 1 + a)[k] = b
                    /\ DigitsAt(s, 1 + a + b, 4)]
        order == << <<2, 2>>, <<2, 1>>, <<1, 2>>, <<1, 1>> >>
        hits  == SelectSeq(order, LAMBDA ab : cands[ab[1], ab[2]])
    IN  IF hits = <<>> THEN ValueError                   \* no match at all
        ELSE LET a == hits[1][1]
                 b == hits[1][2]
             IN  IF a + b + 4 # Len(s) THEN ValueError   \* unconverted data remains
                 ELSE MakeDate(IntOf(SubSeq(s, 1 + a + b, a + b + 4)),
                               IntOf(SubSeq(s, 1 + a, a + b)),
                               IntOf(SubSeq(s, 1, a)))

\* datetime.strptime(token, "%Y%m%d")
strptime_Ymd(s) ==
    LET cands == [a \in {1, 2}, b \in {1, 2} |->
                    /\ DigitsAt(s, 1, 4)
                    /\ \E k \in 1..Len(MonthLens(s, 5)) : MonthLens(s, 5)[k] = a
                    /\ \E k \in 1..Len(DayLens(s, 5 + a)) : DayLens(s, 5 + a)[k] = b]
        order == << <<2, 2>>, <<2, 1>>, <<1, 2>>, <<1, 1>> >>
        hits  == SelectSeq(order, LAMBDA ab : cands[ab[1], ab[2]])
    IN  IF hits = <<>> THEN ValueError
        ELSE LET a == hits[1][1]
                 b == hits[1][2]
             IN  IF 4 + a + b # Len(s) THEN ValueError
                 ELSE MakeDate(IntOf(SubSeq(s, 1, 4)),
                               IntOf(SubSeq(s, 5, 4 + a)),
                               IntOf(SubSeq(s, 5 + a, 4 + a + b)))

\* mutation: only the first format is tried
TokenIsJul2025FirstFormat(token) ==
    strptime_dmY(token).ok /\ strptime_dmY(token).year = 2025
    /\ strptime_dmY(token).month = 7

\* one pass of the loop over the two formats, for one token
TokenIsJul2025(token) ==
    LET d1 == strptime_dmY(token)
        d2 == strptime_Ymd(token)
    IN  IF d1.ok /\ d1.year = 2025 /\ d1.month = 7 THEN TRUE
        ELSE d2.ok /\ d2.year = 2025 /\ d2.month = 7

RECURSIVE AnyJul2025(_)
AnyJul2025(tokens) ==
    IF tokens = <<>> THEN FALSE
    ELSE IF TokenIsJul2025(Head(tokens)) THEN TRUE
    ELSE AnyJul2025(Tail(tokens))

detect_jul_2025(text) == AnyJul2025(DATE_8D_findall(text))

(***************************************************************************)
(* validate_fixed_lines                                                    *)
(***************************************************************************)
\* the line boundaries of str.splitlines(), besides "\r\n"
LineBreaks == {"\n", "\r", "\f", "U+000B", "U+001C", "U+001D", "U+001E", "U+0085",
               "U+2028", "U+2029"}

\* str.splitlines(): a line ends at "\r\n" or at one of LineBreaks; the last
\* line needs no terminator, and no empty line follows a final terminator
RECURSIVE splitlines_from(_, _, _, _)
splitlines_from(text, p, cur, lines) ==
    IF p > Len(text) THEN (IF cur = <<>> THEN lines ELSE Append(lines, cur))
    ELSE IF text[p] = "\r" /\ p < Len(text) /\ text[p + 1] = "\n"
    THEN splitlines_from(text, p + 2, <<>>, Append(lines, cur))
    ELSE IF text[p] \in LineBreaks
    THEN splitlines_from(text, p + 1, <<>>, Append(lines, cur))
    ELSE splitlines_from(text, p + 1, Append(cur, text[p]), lines)

splitlines(text) == splitlines_from(text, 1, <<>>, <<>>)

\* l.rstrip("\r\n")
RECURSIVE rstrip_crlf(_)
rstrip_crlf(s) == IF s # <<>> /\ s[Len(s)] \in {"\r", "\n"}
                  THEN rstrip_crlf(SubSeq(s, 1, Len(s) - 1)) ELSE s

\* lens = [len(l.rstrip("\r\n")) for l in lines]
Lens(lines) == [k \in 1..Len(lines) |-> Len(rstrip_crlf(lines[k]))]

\* lens.count(L)
Count(lens, L) == Cardinality({k \in 1..Len(lens) : lens[k] = L})

\* max(set(lens), key=lens.count) is the first most frequent length in the
\* iteration order of the set, which the language leaves open: any of the
\* most frequent lengths
ModeLens(lens) ==
    {L \in {lens[k] : k \in 1..Len(lens)} :
        \A k \in 1..Len(lens) : Count(lens, lens[k]) <= Count(lens, L)}

NDiff(lens, mode_len) == Cardinality({k \in 1..Len(lens) : lens[k] # mode_len})

(***************************************************************************)
(* pct_diff = k / n * 100 in float arithmetic, for 0 < k < n.  A float is  *)
(* [m, e], the number m / 2^e with m, of 53 bits, in groups of four digits *)
(***************************************************************************)
\* the groups of g * 2^s
RECURSIVE TimesPow2(_, _)
TimesPow2(g, s) == IF s <= 13 THEN Times(g, Pow2(s), 0)
                   ELSE TimesPow2(Times(g, Pow2(13), 0), s - 13)

\* g divided by d, from the first group on: the quotient q and the remainder
\* r, with d beside them
RECURSIVE LongDiv(_, _, _, _)
LongDiv(g, d, r, q) ==
    IF g = <<>> THEN [q |-> q, r |-> r, d |-> d]
    ELSE LongDiv(Tail(g), d, (r * Pow10(4) + Head(g)) % d,
                 Append(q, (r * Pow10(4) + Head(g)) \div d))

DivMod(g, d) == LongDiv(g, d, 0, <<>>)

IsOdd(g) == g[Len(g)] % 2 = 1

\* the quotient x rounded to the nearest, the even one at a tie
RoundEven(x) ==
    IF 2 * x.r > x.d \/ (2 * x.r = x.d /\ IsOdd(x.q)) THEN Times(x.q, 1, 1) ELSE x.q

\* a >= b, for two numbers in groups
Geq(a, b) == Leq(NumeralOf(b), NumeralOf(a))

\* the s with 2^52 <= k * 2^s / n < 2^53
Shift(k, n) ==
    IF k * Pow2(BitLen(n) - BitLen(k)) >= n
    THEN 52 + BitLen(n) - BitLen(k) ELSE 53 + BitLen(n) - BitLen(k)

Ratio(k, n, s) == [m |-> RoundEven(DivMod(TimesPow2(Groups(k), s), n)), e |-> s]

\* the float k / n
TrueDiv(k, n) == Ratio(k, n, Shift(k, n))

\* the float N / 2^e of a product N of 59 or 60 bits: t of them are dropped
Product(N, e, t) == [m |-> RoundEven(DivMod(N, Pow2(t))), e |-> e - t]

Bits60(N, e) == Product(N, e, IF Geq(N, TimesPow2(<<1>>, 59)) THEN 7 ELSE 6)

\* the float x * 100
Times100(x) == Bits60(Times(x.m, 100, 0), x.e)

\* sum(1 for L in lens if L != mode_len) / len(lens) * 100
PctDiff(k, n) == Times100(TrueDiv(k, n))

\* x > 5
Over5(x) == ~Geq(TimesPow2(<<5>>, x.e), x.m)

\* x >= 5
Over5Inclusive(x) == Geq(x.m, TimesPow2(<<5>>, x.e))

\* mutation: the threshold test with >= in place of >
PctOver5Inclusive(lens, mode_len) ==
    NDiff(lens, mode_len) > 0 /\ Over5Inclusive(PctDiff(NDiff(lens, mode_len), Len(lens)))

\* pct_diff > 5
PctOver5(lens, mode_len) ==
    NDiff(lens, mode_len) > 0 /\ Over5(PctDiff(NDiff(lens, mode_len), Len(lens)))

\* g divided by 2^s, s > 0, in steps
RECURSIVE Halved(_, _, _)
Halved(g, s, rest) ==
    IF s <= 13 THEN [q |-> DivMod(g, Pow2(s)).q, rest |-> rest \/ DivMod(g, Pow2(s)).r # 0]
    ELSE Halved(DivMod(g, Pow2(13)).q, s - 13, rest \/ DivMod(g, Pow2(13)).r # 0)

\* the number of the groups g
RECURSIVE NatOfGroups(_)
NatOfGroups(g) == IF g = <<>> THEN 0
                  ELSE NatOfGroups(SubSeq(g, 1, Len(g) - 1)) * Pow10(4) + g[Len(g)]

\* h, twice a number of tenths, rounded to tenths: up when the half is there
\* and something behind it, or the tenths are odd
HalfEven(h, rest) ==
    IF h % 2 = 1 /\ (rest \/ (h \div 2) % 2 = 1) THEN h \div 2 + 1 ELSE h \div 2

Halves(x) == HalfEven(NatOfGroups(x.q), x.rest)

\* the tenths of the float x, rounded half to even on its exact value
Tenths(x) == Halves(Halved(Times(x.m, 10, 0), x.e - 1, FALSE))

\* f"{pct_diff:.1f}": the tenths of a percent
PctTenths(k, n) == Tenths(PctDiff(k, n))

Decimal1(t) == StrNat(t \div 10) \o <<".">> \o <<DigitChar(t % 10)>>

Format1f(k, n) == Decimal1(PctTenths(k, n))

\* the findings for a text with at least one line, mode_len being the value
\* max(set(lens), key=lens.count) returned
FixedChecks(lines, mode_len) ==
    LET lens == Lens(lines)
        f1 == IF PctOver5(lens, mode_len)
              THEN << Finding("FIXO_COMPRIMENTO", "media", <<"-">>,
                              <<"% das linhas diferem do comprimento modal",
                                Format1f(NDiff(lens, mode_len), Len(lens)), mode_len>>,
                              "Verificar layout/quebras de linha; reexportar.", I(0)) >>
              ELSE <<>>
        has_codes == \E k \in 1..Len(lines) : PROC_10D_search(lines[k])
        has_jul25 == \E k \in 1..Len(lines) : detect_jul_2025(lines[k])
        f2 == IF ~has_codes
              THEN Append(f1, Finding("SIGTAP_AUSENTE", "alta", <<"-">>,
                              <<"Nao foram encontrados codigos de 10 digitos (SIGTAP).">>,
                              "Confirmar se o arquivo contem os procedimentos.", I(0)))
              ELSE f1
    IN  IF ~has_jul25
        THEN Append(f2, Finding("COMPETENCIA_DUVIDA", "baixa", <<"-">>,
                        <<"Nao detectei datas de julho/2025 nas linhas.">>,
                        "Verificar competencia do lote.", I(0)))
        ELSE f2

ArqVazio ==
    << Finding("ARQ_VAZIO", "alta", <<"-">>, <<"Arquivo sem linhas.">>,
               "Reexportar arquivo do sistema.", I(0)) >>

\* mutation: the empty file is reported and the other checks still run
validate_fixed_lines_no_return(text) ==
    IF splitlines(text) = <<>> THEN {ArqVazio \o FixedChecks(<<>>, 0)}
    ELSE { FixedChecks(splitlines(text), m) : m \in ModeLens(Lens(splitlines(text))) }

\* the values validate_fixed_lines(text) can return
validate_fixed_lines(text) ==
    IF splitlines(text) = <<>> THEN {ArqVazio}
    ELSE { FixedChecks(splitlines(text), m) : m \in ModeLens(Lens(splitlines(text))) }

(***************************************************************************)
(* ia_priorizar_e_sugerir                                                  *)
(*                                                                         *)
(* A findings table is DF(the sequence of its findings), or None.  The    *)
(* text of the remote answer is a sequence of tokens: "{" and "}", "R",    *)
(* "A" and "C" for the members "resumo_md", a non-empty "acoes" and        *)
(* "citacoes" of a JSON object, "N" for a member "resumo_md" that is null, *)
(* "B" for a member "acoes" that pd.DataFrame rejects (a text), and "x"    *)
(* for any other text.  A summary is a record whose field tipo tells which *)
(* of the texts it is.                                                     *)
(***************************************************************************)
ViewRows == 500

TopRules == 7

FirstPriority == 3

\* a findings DataFrame in a pack
DF(findings) == [t |-> "df", rows |-> findings]

\* df is None or df.empty
IsEmptyTable(df) == df.t = "none" \/ df.rows = <<>>

\* rows: every non-empty table, with its column "fonte"; allf: their concat
RECURSIVE ConcatRows(_)
ConcatRows(findings_df_list) ==
    IF findings_df_list = <<>> THEN <<>>
    ELSE LET fonte == Head(findings_df_list)[1]
             df    == Head(findings_df_list)[2]
         IN  (IF IsEmptyTable(df) THEN <<>>
              ELSE [k \in 1..Len(df.rows) |-> [f |-> df.rows[k], fonte |-> fonte]])
             \o ConcatRows(Tail(findings_df_list))

\* df.head(n)
head(s, n) == SubSeq(s, 1, IF Len(s) < n THEN Len(s) ELSE n)

\* the distinct values of a sequence, in order of first appearance
RECURSIVE Distinct(_)
Distinct(s) ==
    IF s = <<>> THEN <<>>
    ELSE LET d == Distinct(SubSeq(s, 1, Len(s) - 1))
         IN  IF \E k \in 1..Len(d) : d[k] = s[Len(s)] THEN d ELSE Append(d, s[Len(s)])

\* insert x into a sequence sorted by falling count, after its equals
RECURSIVE InsertByCount(_, _)
InsertByCount(sorted, x) ==
    IF sorted = <<>> THEN <<x>>
    ELSE IF Head(sorted)[2] >= x[2] THEN <<Head(sorted)>> \o InsertByCount(Tail(sorted), x)
    ELSE <<x>> \o sorted

RECURSIVE SortByCount(_)
SortByCount(s) ==
    IF s = <<>> THEN <<>>
    ELSE InsertByCount(SortByCount(SubSeq(s, 1, Len(s) - 1)), s[Len(s)])

\* view["regra_id"].value_counts(): <<rule, count>> by falling count, equal
\* counts in order of first appearance
value_counts(view) ==
    LET ids == [k \in 1..Len(view) |-> view[k].f.regra_id]
        d   == Distinct(ids)
    IN  SortByCount([k \in 1..Len(d) |->
                       <<d[k], Cardinality({j \in 1..Len(ids) : ids[j] = d[k]})>>])

\* a + b
Add(a, b) ==
    IF ResType(a, b) = "int" THEN I(a.n + b.n)
    ELSE IF a.t = "nan" \/ b.t = "nan" THEN NaN
    ELSE IF IsInf(a) THEN (IF IsInf(b) /\ b.t # a.t THEN NaN ELSE a)
    ELSE IF IsInf(b) THEN b
    ELSE IF a.t = "-0.0" /\ b.t = "-0.0" THEN NegZero
    ELSE LET x == Unsigned(a)
             y == Unsigned(b)
             e == IF x.e > y.e THEN x.e ELSE y.e
         IN  F(x.n * Pow2(e - x.e) + y.n * Pow2(e - y.e), e)

\* view["impacto_estimado_RS"].fillna(0).sum()
RECURSIVE SumImpacts(_)
SumImpacts(view) ==
    IF view = <<>> THEN I(0)
    ELSE LET x == view[Len(view)].f.impacto_estimado_RS
         IN  Add(SumImpacts(SubSeq(view, 1, Len(view) - 1)), IF isna(x) THEN I(0) ELSE x)

\* the digits of n with "," between groups of three
RECURSIVE Grouped(_)
Grouped(n) ==
    IF n < 1000 THEN StrNat(n)
    ELSE Grouped(n \div 1000) \o <<",">>
         \o <<DigitChar((n \div 100) % 10), DigitChar((n \div 10) % 10), DigitChar(n % 10)>>

\* f"{perdas:,.2f}": the hundredths of the value, rounded half to even, after
\* its sign
Format2f(a) ==
    IF ~IsNum(a)
    THEN (IF a.t = "-0.0" THEN <<"-", "0", ".", "0", "0">> ELSE str(a))
    ELSE LET m == IF a.n < 0 THEN -a.n ELSE a.n
             q == (100 * m) \div Pow2(a.e)
             r == (100 * m) % Pow2(a.e)
             c == IF 2 * r > Pow2(a.e) \/ (2 * r = Pow2(a.e) /\ q % 2 = 1)
                  THEN q + 1 ELSE q
         IN  (IF a.n < 0 THEN <<"-">> ELSE <<>>) \o Grouped(c \div 100) \o <<".">>
             \o <<DigitChar((c \div 10) % 10), DigitChar(c % 10)>>

\* An action table: the empty DataFrame with the ten columns, the rows of the
\* fallback, or DataFrame(payload["acoes"]), whose rows the answer decides.
EmptyActions == [origem |-> "vazio", rows |-> <<>>]

NoFindings ==
    [resumo_md |-> [tipo |-> "nenhum_achado"],
     acoes |-> EmptyActions, citacoes |-> <<>>]

\* the deterministic summary and its action rows
Fallback(view, meta) ==
    LET vc     == head(value_counts(view), TopRules)
        perdas == SumImpacts(view)
    IN  [resumo_md |-> [tipo |-> "automatico",
                        competencia |-> meta.competencia,
                        top_regras |-> vc,
                        impacto |-> Format2f(perdas)],
         acoes |-> [origem |-> "fallback", rows |-> [i \in 1..Len(vc) |->
                      [prioridade |-> IF i <= FirstPriority THEN "P1" ELSE "P2",
                       regra_id |-> vc[i][1],
                       gravidade |-> IF i <= FirstPriority THEN "alta" ELSE "media",
                       fonte |-> "", registro_id |-> "",
                       descricao |-> <<"Tratar (ocorrencias)", vc[i][1], vc[i][2]>>,
                       como_corrigir |-> "Corrigir registros sinalizados e revalidar.",
                       impacto_estimado_RS |-> None,
                       responsavel_sugerido |-> "Faturamento",
                       prazo_dias |-> IF i <= FirstPriority THEN 5 ELSE 10]]],
         citacoes |-> <<>>]

\* txt.find("{") and txt.rfind("}"), 0 for -1
IndexOf(s, c) ==
    IF \E k \in 1..Len(s) : s[k] = c
    THEN CHOOSE k \in 1..Len(s) : s[k] = c /\ \A j \in 1..(k - 1) : s[j] # c
    ELSE 0

Find(txt, c) == IndexOf(txt, c)

RFind(txt, c) ==
    IF \E k \in 1..Len(txt) : txt[k] = c
    THEN CHOOSE k \in 1..Len(txt) : txt[k] = c /\ \A j \in (k + 1)..Len(txt) : txt[j] # c
    ELSE 0

\* the tokens of the members of a JSON object
Members == {"R", "N", "A", "B", "C"}

\* two tokens of one key
SameKey(a, b) == a = b \/ {a, b} = {"R", "N"} \/ {a, b} = {"A", "B"}

\* json.loads(span): the members of the object, the last of a repeated key
\* standing, or an error
json_loads(span) ==
    IF /\ Len(span) >= 2 /\ span[1] = "{" /\ span[Len(span)] = "}"
       /\ \A k \in 2..(Len(span) - 1) : span[k] \in Members
    THEN [ok |-> TRUE,
          keys |-> {span[k] : k \in {k \in 2..(Len(span) - 1) :
                       \A j \in (k + 1)..(Len(span) - 1) : ~SameKey(span[j], span[k])}}]
    ELSE [ok |-> FALSE]

\* payload: {} unless both braces are found and the span between them parses
Payload(txt) ==
    LET s == Find(txt, "{")
        e == RFind(txt, "}")
    IN  IF s # 0 /\ e # 0 /\ json_loads(SubSeq(txt, s, e)).ok
        THEN json_loads(SubSeq(txt, s, e)).keys
        ELSE {}

\* an exception leaving a block
Raised == [raised |-> TRUE]

IsRaised(r) == "raised" \in DOMAIN r

\* what the try block does once the remote call has answered txt: it returns,
\* or pd.DataFrame(payload["acoes"]) raises
FromAnswer(txt) ==
    IF "B" \in Payload(txt) THEN Raised
    ELSE
    [resumo_md |-> IF "R" \in Payload(txt) THEN [tipo |-> "payload"]
                   ELSE IF "N" \in Payload(txt) THEN [tipo |-> "payload_null"]
                   ELSE IF txt # <<>> THEN [tipo |-> "resposta", txt |-> txt]
                   ELSE [tipo |-> "sem_texto"],
     acoes |-> IF "A" \in Payload(txt)
               THEN [origem |-> "payload", rows |-> <<"payload.acoes">>]
               ELSE EmptyActions,
     citacoes |-> IF "C" \in Payload(txt) THEN <<"payload.citacoes">> ELSE <<>>]

\* the try block: the import, the client and the call, then the answer
TryRemote(env) ==
    IF env.remote.t = "raise" THEN Raised
    ELSE FromAnswer(IF env.remote.t = "none" THEN <<>> ELSE env.remote.txt)

\* the remote call is attempted: findings, and a key
remote_attempted(findings_df_list, env) ==
    ConcatRows(findings_df_list) # <<>> /\ env.api_key

\* env.api_key: os.getenv("OPENAI_API_KEY") is set; env.remote: what the
\* import, the client and the call do: raise, or answer a text (or no text)
ia_priorizar_e_sugerir(findings_df_list, meta, env) ==
    LET allf == ConcatRows(findings_df_list)
        view == head(allf, ViewRows)
    IN  IF allf = <<>> THEN NoFindings
        ELSE IF env.api_key /\ ~IsRaised(TryRemote(env))
        THEN TryRemote(env)
        ELSE Fallback(view, meta)

(***************************************************************************)
(* read_csv_smart                                                          *)
(*                                                                         *)
(* The bytes of a file decide what each parse attempt does: file.parse[k]  *)
(* is [ok |-> TRUE, df |-> the table] or [ok |-> FALSE, msg |-> the        *)
(* message of the exception] for the k-th attempt of Attempts.  The value  *)
(* returned carries, beside the table or the error, the attempts that ran. *)
(***************************************************************************)
Encodings == <<"utf-8", "latin-1">>

Separators == <<",", ";", "\t", "|">>

\* 1) csv.Sniffer on each decoding, then pd.read_csv with the sniffed separator
SniffAttempts == [k \in 1..Len(Encodings) |-> <<"sniff", Encodings[k]>>]

\* 2) pd.read_csv with each encoding and, within it, each separator
DirectAttempts ==
    [k \in 1..(Len(Encodings) * Len(Separators)) |->
        <<"read_csv", Encodings[((k - 1) \div Len(Separators)) + 1],
                      Separators[((k - 1) % Len(Separators)) + 1]>>]

\* 3) pd.read_excel
ExcelAttempt == <<"read_excel">>

Attempts == SniffAttempts \o DirectAttempts \o <<ExcelAttempt>>

\* raise ValueError(f"Nao foi possivel ler o arquivo (CSV/Excel). Erro: {e}")
TerminalError(e) ==
    [raised |-> TRUE, type |-> "ValueError",
     msg |-> <<"Nao foi possivel ler o arquivo (CSV/Excel). Erro: ", e>>]

\* the same with the explicit pairs ordered by separator, then by encoding
read_from_by_separator(file, k, tried) ==
    LET order == [j \in 1..Len(Attempts) |->
                    IF j \in 3..10
                    THEN 3 + ((j - 3) % Len(Encodings)) * Len(Separators)
                           + ((j - 3) \div Len(Encodings))
                    ELSE j]
        RECURSIVE go(_, _)
        go(j, done) ==
            IF j > Len(Attempts) THEN [raised |-> TRUE, tried |-> done]
            ELSE IF file.parse[order[j]].ok
            THEN [df |-> file.parse[order[j]].df, tried |-> Append(done, Attempts[order[j]])]
            ELSE IF Attempts[order[j]] = ExcelAttempt
            THEN TerminalError(file.parse[order[j]].msg)
                 @@ [tried |-> Append(done, Attempts[order[j]])]
            ELSE go(j + 1, Append(done, Attempts[order[j]]))
    IN  go(k, tried)

\* the attempts from the k-th on; tried: the attempts already made
RECURSIVE read_from(_, _, _)
read_from(file, k, tried) ==
    IF k > Len(Attempts) THEN [raised |-> TRUE, tried |-> tried]
    ELSE IF file.parse[k].ok
    THEN [df |-> file.parse[k].df, tried |-> Append(tried, Attempts[k])]
    ELSE IF Attempts[k] = ExcelAttempt
    THEN TerminalError(file.parse[k].msg) @@ [tried |-> Append(tried, Attempts[k])]
    ELSE read_from(file, k + 1, Append(tried, Attempts[k]))

read_csv_smart(file) == read_from(file, 1, <<>>)

(***************************************************************************)
(* st.session_state of the audit tab                                       *)
(***************************************************************************)
\* the two keys as the tab creates them
SessionStart == [findings_pack |-> <<>>, competencia_atual |-> None]

\* no audit run has run to completion
NoRun == [pack |-> <<>>, competencia |-> None, files |-> 0]

(***************************************************************************)
(* The "Rodar Auditoria" handler                                           *)
(*                                                                         *)
(* An uploaded file is [t |-> "file", name, parse, text]: parse as         *)
(* read_csv_smart needs it, text its latin-1 decoding.  A slot is          *)
(* [f, tipo]; f is None when nothing was uploaded in it.  A workbook is    *)
(* the sequence of its sheets, [name, header, rows], in the order of their *)
(* creation.                                                               *)
(***************************************************************************)
DetLines == 500

TopSheet == 5

\* PROC_10D.findall(line), from position p on
RECURSIVE findall_from(_, _)
findall_from(line, p) ==
    IF p > Len(line) THEN <<>>
    ELSE IF Proc10At(line, p) THEN <<SubSeq(line, p, p + 9)>> \o findall_from(line, p + 10)
    ELSE findall_from(line, p + 1)

extract_codes(line) == findall_from(line, 1)

\* file.getvalue().decode("latin-1", errors="ignore")
try_read_text(f) == f.text

\* f.seek(0); pd.read_excel(f): the spreadsheet parser on the same bytes
read_excel(f) == f.parse[Len(Attempts)]

\* df = read_csv_smart(f), and pd.read_excel(f) when that raises
Ingest(f) ==
    LET r == read_csv_smart(f)
    IN  IF ~IsRaised(r) THEN r.df
        ELSE IF read_excel(f).ok THEN read_excel(f).df
        ELSE [raised |-> TRUE, type |-> "Exception", msg |-> read_excel(f).msg]

\* the rows of Detalhe_codigos of one file: its first DetLines lines with codes
RECURSIVE det_rows_of(_, _, _)
det_rows_of(fname, lines, idx) ==
    IF idx > Len(lines) \/ idx > DetLines THEN <<>>
    ELSE LET codes == extract_codes(lines[idx])
         IN  (IF codes # <<>>
              THEN << [arquivo |-> fname, line_idx |-> idx,
                       codes_10d |-> codes, n_codes |-> Len(codes)] >>
              ELSE <<>>)
             \o det_rows_of(fname, lines, idx + 1)

\* the loop over the uploaded slots: the set of its possible outcomes, each
\* [all_findings, det_rows] or the exception that leaves the loop
RECURSIVE audit_loop(_, _, _)
audit_loop(uploaded, all_findings, det_rows) ==
    IF uploaded = <<>> THEN { [all_findings |-> all_findings, det_rows |-> det_rows] }
    ELSE LET f    == Head(uploaded).f
             tipo == Head(uploaded).tipo
         IN  IF f.t = "none" THEN audit_loop(Tail(uploaded), all_findings, det_rows)
             ELSE IF tipo = "TISS_CSV"
             THEN LET df == Ingest(f)
                  IN  IF IsRaised(df) THEN {df}
                      ELSE audit_loop(Tail(uploaded),
                                      Append(all_findings, <<"TISS", DF(validate_tiss_csv(df))>>),
                                      det_rows)
             ELSE UNION { audit_loop(Tail(uploaded),
                                     Append(all_findings, <<tipo, DF(findings)>>),
                                     det_rows \o det_rows_of(f.name, splitlines(try_read_text(f)), 1)) :
                            findings \in validate_fixed_lines(try_read_text(f)) }

FindingColumns ==
    <<"regra_id", "gravidade", "registro_id", "descricao", "como_corrigir", "impacto_estimado_RS">>

SheetIndex(book, name) ==
    IF \E k \in 1..Len(book) : book[k].name = name
    THEN CHOOSE k \in 1..Len(book) : book[k].name = name
    ELSE 0

\* df.to_excel(writer, sheet_name=name, index=False) on a writer opened for
\* writing: a new sheet, or the cells of the table written over the sheet of
\* that name
to_excel(book, name, header, rows) ==
    LET k == SheetIndex(book, name)
    IN  IF k = 0 THEN Append(book, [name |-> name, header |-> header, rows |-> rows])
        ELSE [book EXCEPT ![k] =
                [name |-> name, header |-> header,
                 rows |-> rows \o SubSeq(book[k].rows, Len(rows) + 1, Len(book[k].rows))]]

\* the same when every table gets a sheet of its own
to_excel_new_sheet(book, name, header, rows) ==
    Append(book, [name |-> name, header |-> header, rows |-> rows])

\* for fonte, df_f in all_findings: df_tmp.to_excel(writer, f"{fonte}_erros")
RECURSIVE findings_sheets(_, _)
findings_sheets(book, all_findings) ==
    IF all_findings = <<>> THEN book
    ELSE LET fonte == Head(all_findings)[1]
             df_f  == Head(all_findings)[2]
             rows  == IF IsEmptyTable(df_f) THEN <<>> ELSE df_f.rows
         IN  findings_sheets(to_excel(book, <<fonte, "_erros">>, FindingColumns, rows),
                             Tail(all_findings))

\* resumo: one row per entry of all_findings with findings
RECURSIVE resumo_rows(_)
resumo_rows(all_findings) ==
    IF all_findings = <<>> THEN <<>>
    ELSE LET fonte == Head(all_findings)[1]
             df_f  == Head(all_findings)[2]
         IN  (IF IsEmptyTable(df_f) THEN <<>>
              ELSE << [fonte |-> fonte,
                       top5_regra_ids |->
                           head(value_counts([k \in 1..Len(df_f.rows) |->
                                                 [f |-> df_f.rows[k], fonte |-> fonte]]),
                                TopSheet)] >>)
             \o resumo_rows(Tail(all_findings))

\* the workbook Correcoes_Imediatas.xlsx
Workbook(all_findings, det_rows) ==
    LET erros   == findings_sheets(<<>>, all_findings)
        detalhe == to_excel(erros, <<"Detalhe_codigos">>,
                            <<"arquivo", "line_idx", "codes_10d", "n_codes">>, det_rows)
        resumo  == resumo_rows(all_findings)
    IN  to_excel(detalhe, <<"Resumo_executivo">>,
                 IF resumo = <<>> THEN <<>> ELSE <<"fonte", "top5_regra_ids">>, resumo)

\* what a run that reached its end produced and stored
RunOutcome(o) ==
    [xls |-> Workbook(o.all_findings, o.det_rows),
     all_findings |-> o.all_findings]

\* the number of slots with a file
RECURSIVE Uploads(_)
Uploads(uploaded) ==
    IF uploaded = <<>> THEN 0
    ELSE (IF Head(uploaded).f.t = "none" THEN 0 ELSE 1) + Uploads(Tail(uploaded))

\* a script run ended by Streamlit: a request to run the script again (the
\* user touched a widget) is served at the next call into Streamlit, which
\* raises an exception no "except Exception" catches
ScriptStopped == [raised |-> TRUE, by |-> "rerun"]

\* if st.button("Rodar Auditoria"): the loop, the workbook, the two session
\* values.  An exception ends the script run where it is raised.  So does a
\* request to run the script again, at a call into Streamlit: at one before
\* the session values are written (st.write, st.info, st.dataframe,
\* st.download_button, or the assignment of findings_pack before it stores),
\* or at the assignment of competencia_atual, when findings_pack is stored
\* and competencia_atual is not.  A run stopped at st.success has done all a
\* completed run does.
RodarAuditoria ==
    /\ pc = "call"
    /\ input.kind = "AUDIT"
    /\ \/ \E o \in audit_loop(input.uploaded, <<>>, <<>>) :
             IF IsRaised(o)
             THEN /\ result' = o
                  /\ UNCHANGED <<session_state, completed>>
             ELSE /\ result' = RunOutcome(o)
                  /\ session_state' = [findings_pack |-> o.all_findings,
                                        competencia_atual |-> input.competencia]
                  /\ completed' = [pack |-> o.all_findings, competencia |-> input.competencia,
                                    files |-> Uploads(input.uploaded)]
       \/ /\ result' = ScriptStopped
          /\ UNCHANGED <<session_state, completed>>
       \/ \E o \in audit_loop(input.uploaded, <<>>, <<>>) :
             /\ ~IsRaised(o)
             /\ result' = ScriptStopped
             /\ session_state' = [session_state EXCEPT !.findings_pack = o.all_findings]
             /\ UNCHANGED completed
    /\ pc' = "done"
    /\ UNCHANGED input

\* if not st.session_state["findings_pack"]: the summary is not offered
SummaryOffered == session_state.findings_pack # <<>>

(***************************************************************************)
(* The tables validate_tiss_csv is applied to                              *)
(***************************************************************************)
MaxRows == 2

Row(guia, cid, tuss, qtd, unit, total) ==
    [c \in {"numero_guia", "cid10", "tuss_codigo", "qtd", "vl_unit", "vl_total"} |->
        CASE c = "numero_guia" -> guia [] c = "cid10" -> cid
          [] c = "tuss_codigo" -> tuss [] c = "qtd" -> qtd
          [] c = "vl_unit" -> unit     [] c = "vl_total" -> total]

\* <<qtd, vl_unit, vl_total>>
FinCases ==
    { <<I(2), F(10, 0), F(20, 0)>>,           \* 2 * 10.00 = 20.00
      <<I(2), F(10, 0), F(25, 0)>>,           \* 2 * 10.00 against 25.00
      <<I(3), F(10, 0), F(25, 0)>>,           \* 3 * 10.00 against 25.00
      <<I(1), F(1, 7), F(0, 0)>>,             \* off by 0.0078125
      <<I(1), F(1, 6), F(0, 0)>>,             \* off by 0.015625
      <<I(2), I(10), I(25)>>,                 \* three int64 columns
      <<S(<<"x">>), F(10, 0), F(25, 0)>>,     \* qtd is not a number
      <<I(2), NaN, F(25, 0)>>,                \* vl_unit missing
      <<I(2), F(10, 0), S(<<"n", "/", "a">>)>>,
      <<S(<<"2">>), S(<<"1", "0", ".", "5">>), S(<<"2", "5", ".", "0", "0">>)>>,
      <<I(1), F(1, 6), F(1, 0)>>,             \* 0.015625 against 1.0
      <<S(<<"-", "1">>), F(10, 0), F(20, 0)>>,          \* a sign
      <<I(2), S(<<"1", "e", "1">>), F(25, 0)>>,         \* an exponent
      <<I(2), S(<<".", "5">>), S(<<" ", "1", ".">>)>>,  \* no digit before or after "."
      <<S(<<"-", "0", ".", "0">>), F(10, 0), F(5, 0)>>, \* the product is -0.0
      <<I(1), S(<<"i", "n", "f">>), F(25, 0)>>,         \* the product is inf
      <<I(0), S(<<"I", "n", "f">>), F(25, 0)>>,         \* the product is nan
      <<S(<<"-", "0">>), I(5), I(1)>> }                 \* 0, and -0.0 beside a NaN

FieldRows ==
    { Row(g, c, u, I(2), F(10, 0), F(20, 0)) :
        g \in {I(7), S(<<"G", "1">>)},
        c \in {NaN, S(<<" ">>), S(<<"U+00A0">>), S(<<"A", "1", "0">>)},
        u \in {NaN, S(<<"\t", " ">>), I(5)} }

FinRows == { Row(I(7), S(<<"A", "1", "0">>), I(5), f[1], f[2], f[3]) : f \in FinCases }

\* rows that fail the three checks at once
AllFailRows ==
    { Row(g, NaN, S(<<" ">>), I(2), F(10, 0), F(25, 0)) : g \in {I(7), S(<<"G", "1">>)} }

RowCases == FieldRows \cup FinRows \cup AllFailRows

RowSeqs(n) == UNION { [1..k -> RowCases] : k \in 0..n }

\* pandas never leaves an int beside a NaN or a float in a numeric column;
\* the decimal strings of the tables are those ParseNum reads exactly
WellTyped(df) ==
    \A c \in df.columns :
        /\ dtype(df, c) = "float64" =>
              \A k \in 1..Len(df.rows) : df.rows[k][c].t # "int"
        /\ \A k \in 1..Len(df.rows) :
              df.rows[k][c].t = "str" => Representable(df.rows[k][c].s)

Restrict(row, cols) == [c \in cols |-> row[c]]

WithColumn(row, c, x) == [d \in DOMAIN row \cup {c} |-> IF d = c THEN x ELSE row[d]]

\* tables with every required column
FullTables ==
    { df \in [columns : {{"numero_guia", "cid10", "tuss_codigo", "qtd", "vl_unit", "vl_total"}},
              rows : RowSeqs(MaxRows)] : WellTyped(df) }

\* the one-row tables with one more column, of text
ExtraTables ==
    { [columns |-> {"numero_guia", "cid10", "tuss_codigo", "qtd", "vl_unit", "vl_total",
                    "paciente"},
       rows |-> << WithColumn(r, "paciente", S(<<"P">>)) >>] : r \in RowCases }

\* tables from which one or more required columns were dropped
PartialTables ==
    { [columns |-> cols, rows |-> [k \in 1..Len(rs) |-> Restrict(rs[k], cols)]] :
        cols \in (SUBSET {"numero_guia", "cid10", "tuss_codigo", "qtd", "vl_unit", "vl_total"})
                 \ {{"numero_guia", "cid10", "tuss_codigo", "qtd", "vl_unit", "vl_total"}},
        rs \in [1..MaxRows -> { Row(I(7), NaN, NaN, I(2), F(10, 0), F(25, 0)),
                                Row(S(<<"G", "1">>), S(<<"A", "1", "0">>), I(5),
                                    I(2), F(10, 0), F(20, 0)) }] \cup {<<>>} }

TissInputs == FullTables \cup ExtraTables \cup PartialTables

(***************************************************************************)
(* The texts validate_fixed_lines is applied to: MaxRep or fewer copies of *)
(* one line followed by MaxOdd or fewer copies of another                  *)
(***************************************************************************)
MaxRep == 21

MaxOdd == 2

Code10 == <<"0", "3", "0", "1", "0", "1", "0", "0", "1", "9">>

DateDMY == <<"0", "1", "0", "7", "2", "0", "2", "5">>

DateYMD == <<"2", "0", "2", "5", "0", "7", "3", "1">>

Date1990 == <<"1", "5", "0", "2", "1", "9", "9", "0">>

BulkLines == { <<"x", "y">>, DateDMY, Code10 }

OddLines ==
    { <<>>, <<"x", "y">>, <<"A", " ", "b">>,
      Code10, DateDMY, DateYMD, Date1990,
      Code10 \o <<"7">>,                                   \* eleven digits
      <<"0", "3">> \o DateDMY,                             \* a code holding 01072025
      DateYMD \o <<"1", "2">>,                             \* a code holding 20250731
      <<"A">> \o DateDMY,                                  \* a letter before the date
      DateYMD \o <<"_">>,
      <<"A">> \o Code10 \o <<" ">>,
      <<"3", "2", "0", "7", "2", "0", "2", "5">>,          \* day 32
      <<"2", "0", "2", "5", "0", "7", "0", "0">>,          \* day 00
      <<"1", "5", "0", "7", "1", "9", "9", "0">>,          \* July 1990
      <<"2", "0", "2", "5", "0", "6", "3", "0">>,          \* June 2025
      <<"x", " ">> \o DateYMD \o <<".">>,
      Code10 \o <<" ">> \o DateDMY }

RECURSIVE Repeat(_, _)
Repeat(line, n) == IF n = 0 THEN <<>> ELSE <<line>> \o Repeat(line, n - 1)

\* the lines joined by sep, and ended by it when final
RECURSIVE Join(_, _, _)
Join(lines, sep, final) ==
    IF lines = <<>> THEN <<>>
    ELSE Head(lines)
         \o (IF Len(lines) > 1 \/ final THEN sep ELSE <<>>)
         \o Join(Tail(lines), sep, final)

\* 23 lines in 80 differ: 28.75%, which pct_diff misses from below
Lines23In80 == Join(Repeat(<<"x", "y">>, 57) \o Repeat(<<"A", " ", "b">>, 23), <<"\n">>, FALSE)

\* 1 line in 16 differs: pct_diff is 6.25
Lines1In16 == Join(Repeat(<<"x", "y">>, 15) \o <<Code10>>, <<"\n">>, TRUE)

FixedInputs ==
    { Join(Repeat(a, n) \o Repeat(b, m), lay[1], lay[2]) :
        a \in BulkLines, n \in 0..MaxRep, b \in OddLines, m \in 0..MaxOdd,
        lay \in { << <<"\n">>, FALSE >>, << <<"\n">>, TRUE >>, << <<"\r", "\n">>, TRUE >> } }
    \cup {Lines23In80, Lines1In16}

InitFixed ==
    /\ pc = "call"
    /\ input \in { [kind |-> "FIXO", text |-> text] : text \in FixedInputs }
    /\ result = <<>>
    /\ session_state = SessionStart
    /\ completed = NoRun

\* findings = validate_fixed_lines(text, tipo)
ValidateFixed ==
    /\ pc = "call"
    /\ input.kind = "FIXO"
    /\ result' \in validate_fixed_lines(input.text)
    /\ pc' = "done"
    /\ UNCHANGED <<input, session_state, completed>>

InitTiss ==
    /\ pc = "call"
    /\ input \in { [kind |-> "TISS_CSV", df |-> df] : df \in TissInputs }
    /\ result = <<>>
    /\ session_state = SessionStart
    /\ completed = NoRun

\* findings = validate_tiss_csv(df, "TISS"): with every required column, the
\* coerced columns are assigned to the caller's df
ValidateTiss ==
    /\ pc = "call"
    /\ input.kind = "TISS_CSV"
    /\ result' = validate_tiss_csv(input.df)
    /\ input' = IF MissingCols(input.df) = <<>>
                THEN [input EXCEPT !.df = Coerce(@)] ELSE input
    /\ pc' = "done"
    /\ UNCHANGED <<session_state, completed>>

(***************************************************************************)
(* The calls of ia_priorizar_e_sugerir: packs of MaxFiles or fewer tables, *)
(* answers of MaxAnswer or fewer tokens                                    *)
(***************************************************************************)
MaxFiles == 2

MaxAnswer == 3

PackEntries ==
    { <<"TISS", DF(<<>>)>>,
      <<"TISS", DF(validate_tiss_csv([columns |-> {"numero_guia", "cid10", "tuss_codigo",
                                               "qtd", "vl_unit", "vl_total"},
                                   rows |-> << Row(S(<<"G", "1">>), NaN, S(<<"T">>),
                                                   I(1), F(1, 6), F(0, 0)),
                                               Row(S(<<"G", "2">>), NaN, NaN,
                                                   I(2), F(10, 0), F(25, 0)) >>]))>>,
      <<"AIH_fixo", DF(FixedChecks(<<DateDMY>>, 8))>>,
      <<"BPA_fixo", None>> }

Packs == UNION { [1..k -> PackEntries] : k \in 0..MaxFiles }

Answers == UNION { [1..k -> {"{", "}", "R", "N", "A", "B", "x"}] : k \in 0..MaxAnswer }

RemoteOutcomes ==
    {[t |-> "raise"], [t |-> "none"]} \cup { [t |-> "text", txt |-> a] : a \in Answers }

\* without a key the remote call is not made: one outcome stands for all
Envs ==
    { [api_key |-> TRUE, remote |-> r] : r \in RemoteOutcomes }
    \cup { [api_key |-> FALSE, remote |-> [t |-> "raise"]] }

InitIA ==
    /\ pc = "call"
    /\ input \in { [kind |-> "IA", pack |-> p, meta |-> [competencia |-> "202507"], env |-> e] :
                     p \in Packs, e \in Envs }
    /\ result = <<>>
    /\ session_state = SessionStart
    /\ completed = NoRun

\* resultado = ia_priorizar_e_sugerir(findings_pack, meta)
Summarise ==
    /\ pc = "call"
    /\ input.kind = "IA"
    /\ result' = ia_priorizar_e_sugerir(input.pack, input.meta, input.env)
    /\ pc' = "done"
    /\ UNCHANGED <<input, session_state, completed>>

(***************************************************************************)
(* The files read_csv_smart is applied to: every choice of the attempts    *)
(* that succeed, each with a table and a message of its own                *)
(***************************************************************************)
AttemptTable(k) == [columns |-> {"col"}, rows |-> << [c \in {"col"} |-> I(k)] >>]

AttemptOutcome(k, ok) ==
    IF ok THEN [ok |-> TRUE, df |-> AttemptTable(k)]
    ELSE [ok |-> FALSE, msg |-> <<"erro", Attempts[k]>>]

CsvFiles ==
    { [name |-> "guias.csv", parse |-> [k \in 1..Len(Attempts) |-> AttemptOutcome(k, k \in oks)]] :
        oks \in SUBSET (1..Len(Attempts)) }

InitRead ==
    /\ pc = "call"
    /\ input \in { [kind |-> "CSV", file |-> f] : f \in CsvFiles }
    /\ result = <<>>
    /\ session_state = SessionStart
    /\ completed = NoRun

\* df = read_csv_smart(f)
ReadCsv ==
    /\ pc = "call"
    /\ input.kind = "CSV"
    /\ result' = read_csv_smart(input.file)
    /\ pc' = "done"
    /\ UNCHANGED <<input, session_state, completed>>

NextRead == ReadCsv

SpecRead == InitRead /\ [][NextRead]_vars

(***************************************************************************)
(* The forms "Rodar Auditoria" is clicked on: MaxUploads or fewer slots    *)
(***************************************************************************)
MaxUploads == 3

AllColumns == {"numero_guia", "cid10", "tuss_codigo", "qtd", "vl_unit", "vl_total"}

\* a file that only the k-th attempt reads, as the table df
ReadAt(name, k, df) ==
    [t |-> "file", name |-> name, text |-> <<>>,
     parse |-> [j \in 1..Len(Attempts) |->
                  IF j = k THEN [ok |-> TRUE, df |-> df]
                  ELSE [ok |-> FALSE, msg |-> <<"erro", Attempts[j]>>]]]

\* a file no attempt reads
Unreadable(name) ==
    [t |-> "file", name |-> name, text |-> <<>>,
     parse |-> [j \in 1..Len(Attempts) |-> [ok |-> FALSE, msg |-> <<"erro", Attempts[j]>>]]]

\* a file of lines; read as a table it has none of the required columns
TextFile(name, text) ==
    [t |-> "file", name |-> name, text |-> text,
     parse |-> [j \in 1..Len(Attempts) |->
                  IF j = 1 THEN [ok |-> TRUE, df |-> [columns |-> {"col"}, rows |-> <<>>]]
                  ELSE [ok |-> FALSE, msg |-> <<"erro", Attempts[j]>>]]]

GuiasSemCid ==
    ReadAt("guias_a.csv", 1,
           [columns |-> AllColumns,
            rows |-> << Row(S(<<"G", "1">>), NaN, S(<<"T">>), I(2), F(10, 0), F(20, 0)) >>])

GuiasDivergentes ==
    ReadAt("guias_b.csv", 4,
           [columns |-> AllColumns,
            rows |-> << Row(S(<<"G", "2">>), S(<<"A", "1", "0">>), S(<<"T">>),
                            I(2), F(10, 0), F(25, 0)),
                        Row(S(<<"G", "3">>), S(<<"A", "1", "0">>), NaN,
                            I(2), F(10, 0), F(20, 0)) >>])

GuiasLimpas ==
    ReadAt("guias_c.csv", 1,
           [columns |-> AllColumns,
            rows |-> << Row(S(<<"G", "4">>), S(<<"A", "1", "0">>), S(<<"T">>),
                            I(2), F(10, 0), F(20, 0)) >>])

Planilha ==
    ReadAt("guias.xlsx", Len(Attempts),
           [columns |-> AllColumns \ {"vl_total"}, rows |-> <<>>])

Corrompido == Unreadable("vazio.csv")

AihSemCodigos == TextFile("aih_a.txt", <<"x", "y", "\n", "x", "y">>)

AihSemData == TextFile("aih_b.txt", Code10 \o <<"\n">> \o Code10)

BpaLimpo == TextFile("bpa.txt", Code10 \o <<" ">> \o DateDMY \o <<"\n">>)

\* two lines of different lengths: either is the modal length
ApacDuasLinhas == TextFile("apac.txt", <<"x", "y", "\n">> \o Code10 \o <<" ">> \o DateYMD)

Slot(f, tipo) == [f |-> f, tipo |-> tipo]

AuditSlots ==
    { Slot(None, "AIH_fixo"),
      Slot(GuiasSemCid, "TISS_CSV"), Slot(GuiasDivergentes, "TISS_CSV"),
      Slot(GuiasLimpas, "TISS_CSV"), Slot(Planilha, "TISS_CSV"),
      Slot(Corrompido, "TISS_CSV"),
      Slot(AihSemCodigos, "AIH_fixo"), Slot(AihSemData, "AIH_fixo"),
      Slot(BpaLimpo, "BPA_fixo"), Slot(ApacDuasLinhas, "APAC_fixo") }

Competencias == { S(<<"2", "0", "2", "5", "0", "7">>), S(<<"2", "0", "2", "5", "0", "6">>) }

\* int(n_files) slots and the text of the sidebar
Forms(slots, competencias, n) ==
    { [kind |-> "AUDIT", uploaded |-> up, competencia |-> c] :
        up \in UNION { [1..k -> slots] : k \in 1..n }, c \in competencias }

InitAudit ==
    /\ pc = "call"
    /\ input \in Forms(AuditSlots, {S(<<"2", "0", "2", "5", "0", "7">>)}, MaxUploads)
    /\ result = <<>>
    /\ session_state = SessionStart
    /\ completed = NoRun

NextAudit == RodarAuditoria

SpecAudit == InitAudit /\ [][NextAudit]_vars

(***************************************************************************)
(* A session: forms of MaxSessionUploads or fewer slots, filled and run    *)
(* any number of times, and summary requests between them                  *)
(***************************************************************************)
MaxSessionUploads == 2

SessionSlots ==
    { Slot(None, "AIH_fixo"), Slot(Corrompido, "TISS_CSV"),
      Slot(AihSemData, "AIH_fixo"), Slot(BpaLimpo, "BPA_fixo") }

SessionForms == Forms(SessionSlots, Competencias, MaxSessionUploads)

\* the first render: one empty slot, competencia "202507"
InitSession ==
    /\ pc = "call"
    /\ input = [kind |-> "AUDIT", uploaded |-> << Slot(None, "AIH_fixo") >>,
                competencia |-> S(<<"2", "0", "2", "5", "0", "7">>)]
    /\ result = <<>>
    /\ session_state = SessionStart
    /\ completed = NoRun

\* the user changes the sidebar or the uploaders: the script runs again with
\* no button pressed
PreencherForm ==
    /\ input' \in SessionForms
    /\ pc' = "call"
    /\ result' = <<>>
    /\ UNCHANGED <<session_state, completed>>

\* the environments of a summary request in a session: no key; a key and a
\* remote call that raises, answers nothing, answers a text with no JSON, or
\* answers an object with "resumo_md", with a null "resumo_md", with "acoes",
\* or with "acoes" that pd.DataFrame rejects
SessionAnswers ==
    { <<>>, <<"x">>, <<"{", "R", "}">>, <<"{", "N", "}">>, <<"{", "A", "}">>,
      <<"{", "B", "}">> }

SessionEnvs ==
    { [api_key |-> TRUE, remote |-> r] :
        r \in {[t |-> "raise"], [t |-> "none"]}
                \cup { [t |-> "text", txt |-> a] : a \in SessionAnswers } }
    \cup { [api_key |-> FALSE, remote |-> [t |-> "raise"]] }

\* if st.button("Gerar Resumo Executivo (IA)"): the summary of the stored pack,
\* under what the environment holds (a key or none) and the remote call gives
GerarResumo ==
    /\ SummaryOffered
    /\ \E env \in SessionEnvs :
          LET meta == [competencia |-> session_state.competencia_atual]
          IN  result' = [pack |-> session_state.findings_pack,
                         meta |-> meta,
                         env |-> env,
                         resultado |-> ia_priorizar_e_sugerir(session_state.findings_pack,
                                                              meta, env)]
    /\ UNCHANGED <<pc, input, session_state, completed>>

NextSession == PreencherForm \/ RodarAuditoria \/ GerarResumo

SpecSession == InitSession /\ [][NextSession]_vars

Init == InitTiss \/ InitFixed \/ InitIA

Next == ValidateTiss \/ ValidateFixed \/ Summarise

Spec == Init /\ [][Next]_vars

NextTiss == ValidateTiss

SpecTiss == InitTiss /\ [][NextTiss]_vars

NextFixed == ValidateFixed

SpecFixed == InitFixed /\ [][NextFixed]_vars

(***************************************************************************)
(* Texts of MaxCodeLines or fewer lines, among them procedure codes that   *)
(* hold a date of July 2025 at each of the three places                    *)
(***************************************************************************)
MaxCodeLines == 2

CodeLines ==
    OddLines \cup
    { DateDMY \o <<"1", "2">>,
      <<"0">> \o DateDMY \o <<"1">>,
      <<"1">> \o DateYMD \o <<"2">>,
      <<"0", "3">> \o DateYMD,
      <<"A", " ">> \o DateYMD \o <<"1", "2">> \o <<" ", "z">>,
      <<"A">> \o DateDMY \o <<"1", "2">> }

CodeTexts ==
    { Join(lines, <<"\n">>, FALSE) :
        lines \in UNION { [1..k -> CodeLines] : k \in 1..MaxCodeLines } }

InitCode ==
    /\ pc = "call"
    /\ input \in { [kind |-> "FIXO", text |-> text] : text \in CodeTexts }
    /\ result = <<>>
    /\ session_state = SessionStart
    /\ completed = NoRun

SpecCode == InitCode /\ [][NextFixed]_vars

NextIA == Summarise

SpecIA == InitIA /\ [][NextIA]_vars

(***************************************************************************)
(* Properties of validate_tiss_csv                                         *)
(***************************************************************************)
RequiredSet == {"numero_guia", "cid10", "tuss_codigo", "qtd", "vl_unit", "vl_total"}

RowLevelRules == {"TISS_CID_OBR", "TISS_TUSS_OBR", "TISS_FINANCEIRO"}

TissDone == pc = "done" /\ input.kind = "TISS_CSV"

TissComplete == TissDone /\ RequiredSet \subseteq input.df.columns

OfRule(fs, rule) == SelectSeq(fs, LAMBDA f : f.regra_id = rule)

RuleIds(fs) == [k \in 1..Len(fs) |-> fs[k].regra_id]

\* the value of a numeric field once coerced: NaN when it is unknown
Coerced(x) == IF x.t = "str" THEN ParseNum(x.s) ELSE x

AllKnown(r) ==
    ~isna(Coerced(r["qtd"])) /\ ~isna(Coerced(r["vl_unit"])) /\ ~isna(Coerced(r["vl_total"]))

\* the three values are finite
AllFinite(r) ==
    ~IsInf(Coerced(r["qtd"])) /\ ~IsInf(Coerced(r["vl_unit"])) /\ ~IsInf(Coerced(r["vl_total"]))

\* |qtd * vl_unit - vl_total| of finite values, as the fraction DiscNum / DiscDen
DiscNum(r) ==
    LET q == Unsigned(Coerced(r["qtd"]))
        u == Unsigned(Coerced(r["vl_unit"]))
        v == Unsigned(Coerced(r["vl_total"]))
        d == q.n * u.n * Pow2(v.e) - v.n * Pow2(q.e + u.e)
    IN  IF d < 0 THEN -d ELSE d

DiscDen(r) ==
    Pow2(Unsigned(Coerced(r["qtd"])).e + Unsigned(Coerced(r["vl_unit"])).e
         + Unsigned(Coerced(r["vl_total"])).e)

\* |qtd * vl_unit - vl_total| is infinite: the product is an infinity and
\* vl_total is not the same one, or the product is finite and vl_total is not
InfiniteDisc(r) ==
    LET q == Coerced(r["qtd"])
        u == Coerced(r["vl_unit"])
        v == Coerced(r["vl_total"])
    IN  IF IsInf(q) \/ IsInf(u)
        THEN /\ ~IsZero(q) /\ ~IsZero(u)
             /\ ~(IsInf(v) /\ (Negative(v) <=> (Negative(q) # Negative(u))))
        ELSE IsInf(v)

FinExpected(r) ==
    /\ AllKnown(r)
    /\ IF AllFinite(r) THEN 100 * DiscNum(r) > DiscDen(r) ELSE InfiniteDisc(r)

\* missing, or nothing but whitespace
BlankField(x) ==
    isna(x) \/ \A k \in 1..Len(str(x)) : str(x)[k] \in Whitespace

\* the rows, in input order, that satisfy P
RowsWhere(rows, P(_)) == SelectSeq(rows, P)

\* C1: a table lacking one or more required columns gets exactly one finding,
\* TISS_CAMPOS_OBR / alta / "-", and no row-level finding, whatever its rows.
C1_MissingColumns ==
    (TissDone /\ \E c \in RequiredSet : c \notin input.df.columns) =>
        /\ Len(result) = 1
        /\ result[1].regra_id = "TISS_CAMPOS_OBR"
        /\ result[1].gravidade = "alta"
        /\ result[1].registro_id = <<"-">>
        /\ \A k \in 1..Len(result) : result[k].regra_id \notin RowLevelRules

C1_Witness ==
    /\ TissDone
    /\ "vl_total" \notin input.df.columns
    /\ "cid10" \in input.df.columns
    /\ Len(input.df.rows) >= 2
    /\ \E k \in 1..Len(input.df.rows) : isna(input.df.rows[k]["cid10"])
    /\ Len(result) = 1

\* C2: with all required columns, the TISS_FINANCEIRO findings (media) are
\* those of the rows whose qtd, vl_unit and vl_total are all known and differ
\* by |qtd * vl_unit - vl_total| > 0.01, one per such row in row order, each
\* with exactly that absolute difference as estimated impact.  The difference
\* is the one of float arithmetic: infinite when one side is an infinity and
\* the other is not, and no number (greater than nothing) for inf - inf and
\* 0 * inf.
C2_Financeiro ==
    TissComplete =>
        LET fs   == OfRule(result, "TISS_FINANCEIRO")
            rows == RowsWhere(input.df.rows, FinExpected)
        IN  /\ Len(fs) = Len(rows)
            /\ \A k \in 1..Len(fs) :
                  /\ fs[k].gravidade = "media"
                  /\ IF AllFinite(rows[k])
                     THEN /\ IsNum(fs[k].impacto_estimado_RS)
                          /\ fs[k].impacto_estimado_RS.n * DiscDen(rows[k])
                               = DiscNum(rows[k]) * Pow2(fs[k].impacto_estimado_RS.e)
                     ELSE fs[k].impacto_estimado_RS = PosInf

\* qtd=2, vl_unit=10.00, vl_total=25.00 gives one finding of impact 5.00
C2_Witness ==
    /\ TissComplete
    /\ Len(input.df.rows) = 1
    /\ input.df.rows[1]["qtd"] = I(2)
    /\ input.df.rows[1]["vl_unit"] = F(10, 0)
    /\ input.df.rows[1]["vl_total"] = F(25, 0)
    /\ Len(OfRule(result, "TISS_FINANCEIRO")) = 1
    /\ OfRule(result, "TISS_FINANCEIRO")[1].impacto_estimado_RS = F(5, 0)

\* C3: with all required columns, the TISS_CID_OBR (TISS_TUSS_OBR) findings
\* are those of the rows whose cid10 (tuss_codigo) is missing or blank, one
\* per such row, alta, with a null impact and the row's numero_guia as record
\* id.
C3_FieldFindings ==
    TissComplete =>
        \A chk \in { <<"TISS_CID_OBR", "cid10">>, <<"TISS_TUSS_OBR", "tuss_codigo">> } :
            LET fs   == OfRule(result, chk[1])
                Bad(r) == BlankField(r[chk[2]])
                rows == RowsWhere(input.df.rows, Bad)
            IN  /\ Len(fs) = Len(rows)
                /\ \A k \in 1..Len(fs) :
                      /\ fs[k].gravidade = "alta"
                      /\ isna(fs[k].impacto_estimado_RS)
                      /\ fs[k].registro_id = str(rows[k]["numero_guia"])

\* the same without the record id: which rows get the two findings
C3_FieldChecksOnly ==
    TissComplete =>
        \A chk \in { <<"TISS_CID_OBR", "cid10">>, <<"TISS_TUSS_OBR", "tuss_codigo">> } :
            LET fs   == OfRule(result, chk[1])
                Bad(r) == BlankField(r[chk[2]])
                rows == RowsWhere(input.df.rows, Bad)
            IN  /\ Len(fs) = Len(rows)
                /\ \A k \in 1..Len(fs) :
                      /\ fs[k].gravidade = "alta"
                      /\ isna(fs[k].impacto_estimado_RS)

ExpectedRules(r) ==
    (IF BlankField(r["cid10"]) THEN <<"TISS_CID_OBR">> ELSE <<>>)
    \o (IF BlankField(r["tuss_codigo"]) THEN <<"TISS_TUSS_OBR">> ELSE <<>>)
    \o (IF FinExpected(r) THEN <<"TISS_FINANCEIRO">> ELSE <<>>)

RECURSIVE ExpectedSequence(_)
ExpectedSequence(rows) ==
    IF rows = <<>> THEN <<>>
    ELSE ExpectedRules(Head(rows)) \o ExpectedSequence(Tail(rows))

\* C4: the findings come in input row order, every finding of a row kept, in
\* the order CID, TUSS, FINANCEIRO within the row, and equal findings of two
\* rows are both kept.
C4_RowOrder ==
    TissComplete => RuleIds(result) = ExpectedSequence(input.df.rows)

\* two equal rows that each fail the three checks: six findings
C4_Witness ==
    /\ TissComplete
    /\ Len(input.df.rows) = 2
    /\ input.df.rows[1] = input.df.rows[2]
    /\ RuleIds(result) = <<"TISS_CID_OBR", "TISS_TUSS_OBR", "TISS_FINANCEIRO",
                           "TISS_CID_OBR", "TISS_TUSS_OBR", "TISS_FINANCEIRO">>
    /\ result[1] = result[4]

(***************************************************************************)
(* Properties of validate_fixed_lines                                      *)
(***************************************************************************)
FixedDone == pc = "done" /\ input.kind = "FIXO"

\* the text has at least one line
FixedNonEmpty == FixedDone /\ splitlines(input.text) # <<>>

FixedRules == {"FIXO_COMPRIMENTO", "SIGTAP_AUSENTE", "COMPETENCIA_DUVIDA"}

Emits(rule) == \E k \in 1..Len(result) : result[k].regra_id = rule

\* C5: a text that splits into zero lines gets exactly one finding,
\* ARQ_VAZIO / alta / "-", and none of the three other findings.
C5_EmptyFile ==
    (FixedDone /\ splitlines(input.text) = <<>>) =>
        /\ Len(result) = 1
        /\ result[1].regra_id = "ARQ_VAZIO"
        /\ result[1].gravidade = "alta"
        /\ result[1].registro_id = <<"-">>
        /\ \A rule \in FixedRules : ~Emits(rule)

C5_Witness ==
    FixedDone /\ input.text = <<>> /\ Len(result) = 1 /\ Emits("ARQ_VAZIO")

\* how many lines have length L
LinesOfLength(lines, L) == Cardinality({k \in 1..Len(lines) : Len(lines[k]) = L})

\* the most frequent line lengths
ModalLengths(lines) ==
    {L \in 0..Len(input.text) :
        /\ LinesOfLength(lines, L) > 0
        /\ \A M \in 0..Len(input.text) : LinesOfLength(lines, M) <= LinesOfLength(lines, L)}

\* the number of lines whose length differs from the modal length
Differing(lines) ==
    Len(lines) - LinesOfLength(lines, CHOOSE L \in ModalLengths(lines) : TRUE)

\* the percentage "d.d" a finding reports, in tenths of a percent
ReportedTenths(s) == IntOf(SelectSeq(s, LAMBDA c : c # "."))

\* C6: on a non-empty input there is no FIXO_COMPRIMENTO finding when at most
\* 5% of the lines differ in length from the modal length, and exactly one
\* (media) when more than 5% do; it reports that percentage, to the tenth, and
\* a modal length.
C6_LineLength ==
    FixedNonEmpty =>
        LET lines == splitlines(input.text)
            d     == Differing(lines)
            fs    == OfRule(result, "FIXO_COMPRIMENTO")
        IN  /\ (20 * d <= Len(lines)) => fs = <<>>
            /\ (20 * d > Len(lines)) =>
                  /\ Len(fs) = 1
                  /\ fs[1].gravidade = "media"
                  /\ fs[1].descricao[3] \in ModalLengths(lines)
                  /\ LET dev == ReportedTenths(fs[1].descricao[2]) * Len(lines) - 1000 * d
                     IN  2 * dev <= Len(lines) /\ -2 * dev <= Len(lines)

\* 19 lines of one length and one of another: 5.0% exactly, no finding
C6_Witness ==
    /\ FixedNonEmpty
    /\ Len(splitlines(input.text)) = 20
    /\ Differing(splitlines(input.text)) = 1
    /\ ~Emits("FIXO_COMPRIMENTO")

\* 18 lines of one length and two of another: 10.0% reported
C6_WitnessEmitted ==
    /\ FixedNonEmpty
    /\ Len(splitlines(input.text)) = 20
    /\ Differing(splitlines(input.text)) = 2
    /\ Len(OfRule(result, "FIXO_COMPRIMENTO")) = 1
    /\ OfRule(result, "FIXO_COMPRIMENTO")[1].descricao[2] = <<"1", "0", ".", "0">>

\* the length of the run of digits that starts at position p
RECURSIVE RunLength(_, _)
RunLength(s, p) ==
    IF p > Len(s) \/ s[p] \notin Digit THEN 0 ELSE 1 + RunLength(s, p + 1)

\* a run of exactly n digits with no digit next to it
HasDigitRun(s, n) ==
    \E p \in 1..Len(s) : (p = 1 \/ s[p - 1] \notin Digit) /\ RunLength(s, p) = n

\* C7 as stated: for any text, SIGTAP_AUSENTE (alta) is emitted when the text
\* holds no isolated run of exactly 10 digits and is not when it holds one.
C7_AnyText ==
    FixedDone =>
        /\ ~HasDigitRun(input.text, 10) =>
              Len(OfRule(result, "SIGTAP_AUSENTE")) = 1
              /\ OfRule(result, "SIGTAP_AUSENTE")[1].gravidade = "alta"
        /\ HasDigitRun(input.text, 10) => ~Emits("SIGTAP_AUSENTE")

\* C7 amended: the same for any text with at least one line.
C7_NonEmptyText ==
    FixedNonEmpty =>
        /\ ~HasDigitRun(input.text, 10) =>
              Len(OfRule(result, "SIGTAP_AUSENTE")) = 1
              /\ OfRule(result, "SIGTAP_AUSENTE")[1].gravidade = "alta"
        /\ HasDigitRun(input.text, 10) => ~Emits("SIGTAP_AUSENTE")

\* one line holding 0301010019 among lines without digits
C7_Witness ==
    /\ FixedNonEmpty
    /\ Len(splitlines(input.text)) >= 3
    /\ \E k \in 1..Len(splitlines(input.text)) :
          splitlines(input.text)[k] = <<"A">> \o Code10 \o <<" ">>
    /\ splitlines(input.text)[1] = <<"x", "y">>
    /\ ~Emits("SIGTAP_AUSENTE")

\* an 8-digit token: eight digits between characters that are no word
\* characters (or the ends of the line)
IsToken8(s, p) ==
    /\ p + 7 <= Len(s)
    /\ \A k \in p..(p + 7) : s[k] \in Digit
    /\ (p = 1 \/ ~IsWord(s[p - 1]))
    /\ (p + 8 > Len(s) \/ ~IsWord(s[p + 8]))

Num(s, a, b) == IntOf(SubSeq(s, a, b))

\* the token at p is a day of July 2025, read as DDMMYYYY or as YYYYMMDD
JulyToken(s, p) ==
    \/ Num(s, p, p + 1) \in 1..31 /\ Num(s, p + 2, p + 3) = 7 /\ Num(s, p + 4, p + 7) = 2025
    \/ Num(s, p, p + 3) = 2025 /\ Num(s, p + 4, p + 5) = 7 /\ Num(s, p + 6, p + 7) \in 1..31

HasJulyToken(s) == \E p \in 1..Len(s) : IsToken8(s, p) /\ JulyToken(s, p)

\* C8: detect_jul_2025 is true of a line exactly when the line holds an
\* 8-digit token that is a date of July 2025 as DDMMYYYY or as YYYYMMDD, and
\* on a non-empty input COMPETENCIA_DUVIDA (baixa) is emitted exactly when
\* detect_jul_2025 is false of every line.
C8_CompetencyDate ==
    FixedNonEmpty =>
        LET lines == splitlines(input.text)
        IN  /\ \A k \in 1..Len(lines) : detect_jul_2025(lines[k]) <=> HasJulyToken(lines[k])
            /\ Emits("COMPETENCIA_DUVIDA") <=> \A k \in 1..Len(lines) : ~HasJulyToken(lines[k])
            /\ Len(OfRule(result, "COMPETENCIA_DUVIDA")) <= 1
            /\ \A k \in 1..Len(result) :
                  result[k].regra_id = "COMPETENCIA_DUVIDA" => result[k].gravidade = "baixa"

\* lines of 15021990 and one line 20250731: the finding is not emitted
C8_Witness ==
    /\ FixedNonEmpty
    /\ splitlines(input.text)[1] = DateYMD
    /\ Len(splitlines(input.text)) = 1
    /\ detect_jul_2025(DateYMD) /\ detect_jul_2025(DateDMY) /\ ~detect_jul_2025(Date1990)
    /\ ~Emits("COMPETENCIA_DUVIDA")

(***************************************************************************)
(* Properties of both validators                                           *)
(***************************************************************************)
Catalog == {"TISS_CAMPOS_OBR", "TISS_CID_OBR", "TISS_TUSS_OBR", "TISS_FINANCEIRO",
            "ARQ_VAZIO", "FIXO_COMPRIMENTO", "SIGTAP_AUSENTE", "COMPETENCIA_DUVIDA"}

\* C9: every finding of either validator has a rule id of the catalog and an
\* estimated impact that is null (None, or NaN in a float64 column) or a
\* non-negative number (a float may be inf).
C9_Catalog ==
    (TissDone \/ FixedDone) =>
        \A k \in 1..Len(result) :
            /\ result[k].regra_id \in Catalog
            /\ \/ isna(result[k].impacto_estimado_RS)
               \/ IsNum(result[k].impacto_estimado_RS) /\ result[k].impacto_estimado_RS.n >= 0
               \/ result[k].impacto_estimado_RS = PosInf

\* a row with vl_total above qtd * vl_unit: a positive impact beside a null one
C9_Witness ==
    /\ TissComplete
    /\ \E k \in 1..Len(input.df.rows) :
          /\ input.df.rows[k]["vl_total"] = F(25, 0)
          /\ input.df.rows[k]["qtd"] = I(2) /\ input.df.rows[k]["vl_unit"] = F(10, 0)
    /\ \E k \in 1..Len(result) : result[k].impacto_estimado_RS = F(5, 0)
    /\ \E k \in 1..Len(result) : result[k].impacto_estimado_RS = NaN

(***************************************************************************)
(* Properties of ia_priorizar_e_sugerir                                    *)
(***************************************************************************)
IADone == pc = "done" /\ input.kind = "IA"

\* some table of the pack holds a finding
PackHasFindings ==
    \E k \in 1..Len(input.pack) :
        input.pack[k][2].t = "df" /\ input.pack[k][2].rows # <<>>

\* the text the remote call answered
AnswerText == IF input.env.remote.t = "text" THEN input.env.remote.txt ELSE <<>>

\* the text holds one JSON object between its first "{" and its last "}"
HasJsonObject(txt) ==
    \E s, e \in 1..Len(txt) :
        /\ s < e /\ txt[s] = "{" /\ txt[e] = "}"
        /\ \A k \in 1..Len(txt) : (k < s => txt[k] # "{") /\ (k > e => txt[k] # "}")
        /\ \A k \in (s + 1)..(e - 1) : txt[k] \in Members

\* no credential, the remote call raising, or an answer without a JSON object
AIPathFails ==
    \/ ~input.env.api_key
    \/ input.env.remote.t = "raise"
    \/ ~HasJsonObject(AnswerText)

\* the rule ids of the findings of the pack
PackRules ==
    UNION { { input.pack[k][2].rows[j].regra_id : j \in 1..Len(input.pack[k][2].rows) } :
              k \in { k \in 1..Len(input.pack) : input.pack[k][2].t = "df" } }

\* C10: with a non-empty findings pack, every failure of the AI path (no
\* credential, the remote call raising, an answer from which no JSON object
\* can be parsed) ends in the deterministic fallback: the automatic summary
\* and one action row per top rule, never the raw answer with no actions.
C10_FailuresFallBack ==
    (IADone /\ PackHasFindings /\ AIPathFails) =>
        /\ result.resumo_md.tipo = "automatico"
        /\ result.acoes.origem = "fallback"
        /\ Len(result.acoes.rows) = Cardinality(PackRules)
        /\ { result.acoes.rows[i].regra_id : i \in 1..Len(result.acoes.rows) } = PackRules
        /\ result.citacoes = <<>>

\* the fallback is what is returned without a credential and when the remote
\* call raises
C10_FallbackWhenNoAnswer ==
    (IADone /\ PackHasFindings /\ (~input.env.api_key \/ input.env.remote.t = "raise")) =>
        /\ result.resumo_md.tipo = "automatico"
        /\ result.acoes.origem = "fallback"
        /\ Len(result.acoes.rows) = Cardinality(PackRules)
        /\ { result.acoes.rows[i].regra_id : i \in 1..Len(result.acoes.rows) } = PackRules
        /\ result.citacoes = <<>>

\* the result is the triple of a summary, an action table and citations
IsTriple(r) == DOMAIN r = {"resumo_md", "acoes", "citacoes"}

\* C11: ia_priorizar_e_sugerir never raises, whatever the pack and the outcome
\* of the remote call: it returns a summary text, an action table and a list
\* of citations; when no table of the pack holds a finding it returns the "no
\* findings" summary with no action and no citation, without the remote call.
C11_AlwaysSummaryText ==
    IADone =>
        /\ IsTriple(result)
        /\ result.resumo_md.tipo # "payload_null"
        /\ ~PackHasFindings =>
              /\ result = NoFindings
              /\ ~remote_attempted(input.pack, input.env)

\* the same without the kind of the summary: a triple is always returned
C11_AlwaysTriple ==
    IADone =>
        /\ IsTriple(result)
        /\ ~PackHasFindings =>
              /\ result = NoFindings
              /\ ~remote_attempted(input.pack, input.env)

\* the remote call raises, or the answer's actions are rejected: the fallback
C11_RaiseAbsorbed ==
    /\ IADone /\ PackHasFindings /\ input.env.api_key
    /\ input.env.remote.t = "text" /\ "B" \in Payload(input.env.remote.txt)
    /\ result.resumo_md.tipo = "automatico"

(***************************************************************************)
(* Properties of read_csv_smart                                            *)
(***************************************************************************)
ReadDone == pc = "done" /\ input.kind = "CSV"

\* the attempts in the order the specification gives
StatedOrder ==
    << <<"sniff", "utf-8">>, <<"sniff", "latin-1">>,
       <<"read_csv", "utf-8", ",">>, <<"read_csv", "utf-8", ";">>,
       <<"read_csv", "utf-8", "\t">>, <<"read_csv", "utf-8", "|">>,
       <<"read_csv", "latin-1", ",">>, <<"read_csv", "latin-1", ";">>,
       <<"read_csv", "latin-1", "\t">>, <<"read_csv", "latin-1", "|">>,
       <<"read_excel">> >>

\* the places, in the stated order, of the attempts that succeed on the file
Succeeding == {k \in 1..Len(StatedOrder) : input.file.parse[k].ok}

\* C13: read_csv_smart makes its attempts in the stated order, returns the
\* table of the first that succeeds without making a later one, and raises
\* one ValueError carrying the spreadsheet parser's message exactly when
\* every attempt fails.
C13_AttemptOrder ==
    ReadDone =>
        /\ \A k \in 1..Len(result.tried) : result.tried[k] = StatedOrder[k]
        /\ Succeeding # {} =>
              LET first == CHOOSE k \in Succeeding : \A j \in Succeeding : k <= j
              IN  /\ ~IsRaised(result)
                  /\ result.df = input.file.parse[first].df
                  /\ Len(result.tried) = first
        /\ Succeeding = {} =>
              /\ IsRaised(result)
              /\ result.type = "ValueError"
              /\ result.msg[2] = input.file.parse[Len(StatedOrder)].msg
              /\ Len(result.tried) = Len(StatedOrder)

\* only the pair latin-1 with ";" succeeds, beside the spreadsheet parser
C13_Witness ==
    /\ ReadDone
    /\ Succeeding = {8, 11}
    /\ result.df = AttemptTable(8)
    /\ Len(result.tried) = 8

\* every attempt fails
C13_WitnessAllFail ==
    ReadDone /\ Succeeding = {} /\ IsRaised(result)

(***************************************************************************)
(* Properties of the audit run                                             *)
(***************************************************************************)
AuditDone == pc = "done" /\ input.kind = "AUDIT"

\* the run reached its end
AuditCompleted == AuditDone /\ ~IsRaised(result)

HasFile(slot) == slot.f.t = "file"

\* read_csv_smart raises on the file of the slot, and the re-read raises too
FailsIngestion(slot) ==
    /\ HasFile(slot)
    /\ slot.tipo = "TISS_CSV"
    /\ \A k \in 1..Len(slot.f.parse) : ~slot.f.parse[k].ok

\* the name under which the findings of a slot are collected
Fonte(slot) == IF slot.tipo = "TISS_CSV" THEN "TISS" ELSE slot.tipo

\* C12: a file whose ingestion fails does not abort the run: every other
\* uploaded file, before and after it, is ingested and validated and its
\* findings collected, the workbook is written and the findings pack stored.
C12_RunNotAborted ==
    (AuditDone /\ \E k \in 1..Len(input.uploaded) : FailsIngestion(input.uploaded[k])) =>
        /\ ~IsRaised(result)
        /\ LET others == SelectSeq(input.uploaded,
                                   LAMBDA s : HasFile(s) /\ ~FailsIngestion(s))
           IN  /\ Len(result.all_findings) = Len(others)
               /\ \A i \in 1..Len(others) : result.all_findings[i][1] = Fonte(others[i])
        /\ result.xls # <<>>
        /\ session_state.findings_pack = result.all_findings

\* what the run does instead: the exception of the re-read ends it, with no
\* workbook, and the session values stay as they were
C12_AbortsAtFailure ==
    (AuditDone /\ \E k \in 1..Len(input.uploaded) : FailsIngestion(input.uploaded[k])) =>
        /\ IsRaised(result)
        /\ session_state = SessionStart

\* the findings sheets of a workbook, in the order of their creation
ErrosSheets(book) ==
    SelectSeq(book, LAMBDA sh : Len(sh.name) = 2 /\ sh.name[2] = "_erros")

\* the slots of the form that hold a file
Processed == SelectSeq(input.uploaded, HasFile)

\* C14: the workbook of a run holds one findings sheet per processed file,
\* named <fonte>_erros and holding exactly the findings of that file, also
\* when several files are declared with the same kind.
C14_SheetPerFile ==
    AuditCompleted =>
        LET sheets == ErrosSheets(result.xls)
        IN  /\ Len(sheets) = Len(Processed)
            /\ \A i \in 1..Len(Processed) :
                  /\ sheets[i].name = <<Fonte(Processed[i]), "_erros">>
                  /\ sheets[i].header = FindingColumns
                  /\ sheets[i].rows = result.all_findings[i][2].rows

\* the same for the runs whose files are all of different kinds
C14_SheetPerKind ==
    (AuditCompleted /\ \A i, j \in 1..Len(Processed) :
                           i # j => Fonte(Processed[i]) # Fonte(Processed[j])) =>
        LET sheets == ErrosSheets(result.xls)
        IN  /\ Len(sheets) = Len(Processed)
            /\ \A i \in 1..Len(Processed) :
                  /\ sheets[i].name = <<Fonte(Processed[i]), "_erros">>
                  /\ sheets[i].header = FindingColumns
                  /\ sheets[i].rows = result.all_findings[i][2].rows

\* two TISS_CSV files with findings: one sheet TISS_erros, in which the
\* findings of the second are written over those of the first
C14_Overwritten ==
    /\ AuditCompleted
    /\ Len(Processed) = 2
    /\ Processed[1].f = GuiasDivergentes /\ Processed[2].f = GuiasSemCid
    /\ Len(ErrosSheets(result.xls)) = 1
    /\ ErrosSheets(result.xls)[1].rows[1] = result.all_findings[2][2].rows[1]
    /\ ErrosSheets(result.xls)[1].rows[2] = result.all_findings[1][2].rows[2]

(***************************************************************************)
(* A procedure code that holds a date                                      *)
(***************************************************************************)
\* the digits of the line are one isolated run of ten, and eight digits in a
\* row of it read as a day of July 2025
CodeWithDate(line) ==
    /\ Cardinality({k \in 1..Len(line) : line[k] \in Digit}) = 10
    /\ \E p \in 1..Len(line) :
          /\ Proc10At(line, p)
          /\ \E q \in p..(p + 2) : JulyToken(line, q)

\* C15 as stated: on a line whose only digits are one 10-digit code holding
\* a date of July 2025, detect_jul_2025 is true, so that the code alone keeps
\* COMPETENCIA_DUVIDA from being emitted.
C15_CodeSuppresses ==
    FixedNonEmpty =>
        LET lines == splitlines(input.text)
        IN  \A k \in 1..Len(lines) :
                CodeWithDate(lines[k]) =>
                    detect_jul_2025(lines[k]) /\ ~Emits("COMPETENCIA_DUVIDA")

\* C15 amended: on such a line detect_jul_2025 is false, the eight digits
\* inside the code being no token of their own; the code alone does not keep
\* COMPETENCIA_DUVIDA from being emitted.
C15_CodeIsNoDate ==
    FixedNonEmpty =>
        LET lines == splitlines(input.text)
        IN  /\ \A k \in 1..Len(lines) : CodeWithDate(lines[k]) => ~detect_jul_2025(lines[k])
            /\ (\A k \in 1..Len(lines) : CodeWithDate(lines[k]) \/ ~HasJulyToken(lines[k]))
                   => Emits("COMPETENCIA_DUVIDA")

\* a text whose one line is the code 2025073112
C15_Witness ==
    /\ FixedNonEmpty
    /\ splitlines(input.text) = << DateYMD \o <<"1", "2">> >>
    /\ CodeWithDate(DateYMD \o <<"1", "2">>)
    /\ ~detect_jul_2025(DateYMD \o <<"1", "2">>)
    /\ Emits("COMPETENCIA_DUVIDA")
    /\ ~Emits("SIGTAP_AUSENTE")

(***************************************************************************)
(* Properties of the session values                                        *)
(***************************************************************************)
\* a summary has just been given
SummaryGiven == "resultado" \in DOMAIN result

\* C16: findings_pack and competencia_atual are those of the last audit run
\* that ran to completion, whatever runs aborted since; a summary request
\* receives that pair; the summary is offered exactly when that run
\* processed at least one file.
C16_SessionPair ==
    /\ session_state.findings_pack = completed.pack
    /\ session_state.competencia_atual = completed.competencia
    /\ SummaryOffered <=> completed.files >= 1
    /\ SummaryGiven =>
          /\ SummaryOffered
          /\ result.pack = completed.pack
          /\ result.meta.competencia = completed.competencia

\* a summary, here the answer of the remote call made with a key, is given of
\* the findings of a run that was stopped between the two assignments, under
\* the competencia of the completed run before it
C16_TornPair ==
    /\ SummaryGiven
    /\ result.env.api_key
    /\ result.env.remote.t = "text"
    /\ result.resultado.resumo_md = [tipo |-> "payload"]
    /\ completed.files >= 1
    /\ result.pack # completed.pack
    /\ result.meta.competencia = completed.competencia
    /\ result.meta.competencia # input.competencia

\* a summary of a run whose one file had no finding
C16_WitnessNoFindings ==
    /\ SummaryGiven
    /\ completed.files = 1
    /\ IsEmptyTable(session_state.findings_pack[1][2])

=============================================================================
